---------------------------- MODULE Spec2Model ----------------------------
(***************************************************************************)
(* Job_Search_Monitor: the printable report (ReportPrintView: history      *)
(* clean-up, entry weights, weighted pagination) and the stage mutations   *)
(* of a vacancy (KanbanBoard -> App -> api -> server).                     *)
(***************************************************************************)
EXTENDS Integers, Sequences, FiniteSets, Bags, TLC

(***************************************************************************)
(* Bounds of the model.                                                    *)
(***************************************************************************)
\* longest detailed report whose entries have histories of at most 6 items
MaxEntries == 14
\* longest detailed report whose entries use every kind of history
MaxMixed == 8
\* longest detailed report whose entries have histories of more than 3 items
MaxHeavy == 12
\* longest history built from the full alphabet of history items
MaxRich == 3
\* longest history built from the items of one date
MaxHist == 8
\* vacancies the server holds
MaxVacancies == 2
\* stage changes the user makes
MaxDrops == 3
\* stage changes the user makes in the details modal
MaxChanges == 1
\* details modals the user opens
MaxOpens == 2
\* times the user leaves the notes field of the details modal
MaxBlurs == 2
\* vacancy forms the user opens
MaxForms == 3
\* submissions of vacancy forms
MaxSubmits == 2

\* events of any kind the server holds
MaxClassified == 2
\* events of the funnel the server holds
MaxContributing == 3
\* events around the turn of a month the server holds
MaxBoundary == 2

\* vacancies passed to a view
MaxCards == 2
\* deletions the user confirms
MaxDeletes == 1
\* months the user picks on the dashboard
MaxSelections == 1

\* the instants of a month
TicksPerMonth == 3

\* the year of the first instant
EpochYear == 2025

(***************************************************************************)
(* JavaScript numbers.  The weights and page capacities are IEEE-754       *)
(* doubles.  A double x that lies within a tenth of k/10 is held as        *)
(* [t |-> k, d |-> e] with x = k/10 + e/(10 * 2^54): t is the decimal the  *)
(* number stands for, in tenths, and d is its binary representation error  *)
(* in units of 1/(10 * 2^54).  Addition is exact addition followed by      *)
(* round-to-nearest, ties-to-even, at the exponent of the sum.             *)
(***************************************************************************)
Dbl(t, d) == [t |-> t, d |-> d]

\* the literal 0
ZERO == Dbl(0, 0)
\* the literal 1
ONE == Dbl(10, 0)
\* the literal 0.3 = 5404319552844595 / 2^54 = 3/10 - 2/(10 * 2^54)
POINT3 == Dbl(3, -2)

\* binary exponent e of a sum x in [1, 16): 2^e <= x < 2^(e+1)
Exponent(t, d) ==
    LET AtLeast(b) == t > b \/ (t = b /\ d >= 0) IN
    IF AtLeast(80) THEN 3 ELSE IF AtLeast(40) THEN 2 ELSE IF AtLeast(20) THEN 1 ELSE 0

\* one unit in the last place at exponent e, in units of 1/(10 * 2^54): 10 * 2^(e+2)
Ulp(e) == CASE e = 0 -> 40 [] e = 1 -> 80 [] e = 2 -> 160 [] e = 3 -> 320

\* 2^(52-e) modulo 20
PowMod20(e) == CASE e = 0 -> 16 [] e = 1 -> 8 [] e = 2 -> 4 [] e = 3 -> 12

\* a + b as IEEE-754 computes it
FAdd(a, b) ==
    LET t == a.t + b.t
        d == a.d + b.d
        e == Exponent(t, d)
        U == Ulp(e)
        \* (t * 2^54 + d) modulo two ulps
        m == ((U \div 10) * ((t * PowMod20(e)) % 20) + d) % (2 * U)
        q == m % U
        lowOdd == m >= U
    IN  IF 2 * q < U THEN Dbl(t, d - q)
        ELSE IF 2 * q > U THEN Dbl(t, d + U - q)
        ELSE IF lowOdd THEN Dbl(t, d + U - q) ELSE Dbl(t, d - q)

\* a > b
FGt(a, b) == a.t > b.t \/ (a.t = b.t /\ a.d > b.d)

(***************************************************************************)
(* String.prototype.toLowerCase on the strings a history status takes.     *)
(***************************************************************************)
\* mutant: the comparison with "new" made case-sensitive
toLowerCase_Identity(s) == s

toLowerCase(s) ==
    CASE s = "Created" -> "created"
      [] s = "New" -> "new"
      [] s = "NEW" -> "new"
      [] s = "Opened" -> "opened"
      [] OTHER -> s

(***************************************************************************)
(* ReportPrintView                                                         *)
(***************************************************************************)
VARIABLES
    res,            \* the detailed report the server answers getDetailedReport with
    paginatedData,  \* state: the pages shown
    loading,        \* state: the report is being generated
    closed          \* onClose has been called

reportVars == <<res, paginatedData, loading, closed>>

\* mutant: the first page given 6.5
FIRST_PAGE_MAX_WEIGHT_Low == Dbl(65, 0)

FIRST_PAGE_MAX_WEIGHT == Dbl(75, 0)
OTHER_PAGE_MAX_WEIGHT == Dbl(105, 0)

\* mutant: the filter without the map that renames "new"
uniqueHistory_NoRename(history) ==
    LET keep(h) ==
            ~(h.status = "Created"
              /\ \E k \in DOMAIN history :
                    toLowerCase(history[k].status) = "new" /\ history[k].date = h.date)
    IN  SelectSeq(history, keep)

\* v.history.filter(...).map(...)
uniqueHistory(history) ==
    LET keep(h) ==
            ~(h.status = "Created"
              /\ \E k \in DOMAIN history :
                    toLowerCase(history[k].status) = "new" /\ history[k].date = h.date)
        rename(h) ==
            [h EXCEPT !.status = IF toLowerCase(h.status) = "new" THEN "Opened" ELSE h.status]
        map[i \in 0..Len(history)] ==
            IF i = 0 THEN <<>>
            ELSE IF keep(history[i]) THEN Append(map[i-1], rename(history[i])) ELSE map[i-1]
    IN  map[Len(history)]

\* 1 + (length > 3 ? 0.3 : 0) + (length > 6 ? 0.3 : 0)
weight(history) ==
    FAdd(FAdd(ONE, IF Len(history) > 3 THEN POINT3 ELSE ZERO),
         IF Len(history) > 6 THEN POINT3 ELSE ZERO)

\* mutant: the weight taken from the history as received
processedEntry_RawHistory(v) ==
    [company |-> v.company, position |-> v.position, current_stage |-> v.current_stage,
     history |-> uniqueHistory(v.history), weight |-> weight(v.history)]

\* { ...v, history: uniqueHistory, weight }
processedEntry(v) ==
    LET u == uniqueHistory(v.history) IN
    [company |-> v.company, position |-> v.position, current_stage |-> v.current_stage,
     history |-> u, weight |-> weight(u)]

\* res.map(...)
processed(r) == [i \in DOMAIN r |-> processedEntry(r[i])]

\* the variables of the pagination loop before the first iteration
LoopStart ==
    [chunks |-> <<>>, currentChunk |-> <<>>, currentWeight |-> ZERO, isFirstPage |-> TRUE]

\* mutant: a new page starts empty, losing the entry that did not fit
LoopBody_DropsEntry(st, item) ==
    LET maxWeight == IF st.isFirstPage THEN FIRST_PAGE_MAX_WEIGHT ELSE OTHER_PAGE_MAX_WEIGHT IN
    IF FGt(FAdd(st.currentWeight, item.weight), maxWeight) /\ Len(st.currentChunk) > 0
    THEN [chunks |-> Append(st.chunks, st.currentChunk),
          currentChunk |-> <<>>,
          currentWeight |-> ZERO,
          isFirstPage |-> FALSE]
    ELSE [chunks |-> st.chunks,
          currentChunk |-> Append(st.currentChunk, item),
          currentWeight |-> FAdd(st.currentWeight, item.weight),
          isFirstPage |-> st.isFirstPage]

\* mutant: the two capacities swapped
LoopBody_SwappedCapacity(st, item) ==
    LET maxWeight == IF st.isFirstPage THEN OTHER_PAGE_MAX_WEIGHT ELSE FIRST_PAGE_MAX_WEIGHT IN
    IF FGt(FAdd(st.currentWeight, item.weight), maxWeight) /\ Len(st.currentChunk) > 0
    THEN [chunks |-> Append(st.chunks, st.currentChunk),
          currentChunk |-> <<item>>,
          currentWeight |-> item.weight,
          isFirstPage |-> FALSE]
    ELSE [chunks |-> st.chunks,
          currentChunk |-> Append(st.currentChunk, item),
          currentWeight |-> FAdd(st.currentWeight, item.weight),
          isFirstPage |-> st.isFirstPage]

\* one iteration of the pagination loop
LoopBody(st, item) ==
    LET maxWeight == IF st.isFirstPage THEN FIRST_PAGE_MAX_WEIGHT ELSE OTHER_PAGE_MAX_WEIGHT IN
    IF FGt(FAdd(st.currentWeight, item.weight), maxWeight) /\ Len(st.currentChunk) > 0
    THEN [chunks |-> Append(st.chunks, st.currentChunk),
          currentChunk |-> <<item>>,
          currentWeight |-> item.weight,
          isFirstPage |-> FALSE]
    ELSE [chunks |-> st.chunks,
          currentChunk |-> Append(st.currentChunk, item),
          currentWeight |-> FAdd(st.currentWeight, item.weight),
          isFirstPage |-> st.isFirstPage]

\* the iterations from item k on
RECURSIVE LoopFrom(_, _, _)
LoopFrom(items, k, st) ==
    IF k > Len(items) THEN st
    ELSE LET next == LoopBody(st, items[k])
         IN  \* the variables after this iteration are computed before the next one
             IF next.isFirstPage \in BOOLEAN THEN LoopFrom(items, k + 1, next) ELSE next

\* for (const item of processed) { ... }
Loop(items) == LoopFrom(items, 1, LoopStart)

\* mutant: the last chunk pushed only when it holds an entry
chunks_NoEmptyPage(items) ==
    LET st == Loop(items) IN
    IF Len(st.currentChunk) > 0 THEN Append(st.chunks, st.currentChunk) ELSE st.chunks

\* the pages: the loop, then the last chunk
chunks(items) ==
    LET st == Loop(items) IN
    IF Len(st.currentChunk) > 0 \/ Len(st.chunks) = 0
    THEN Append(st.chunks, st.currentChunk)
    ELSE st.chunks

\* load(): getDetailedReport resolves
Load ==
    /\ loading
    /\ paginatedData' = chunks(processed(res))
    /\ loading' = FALSE
    /\ UNCHANGED <<res, closed>>

\* load(): getDetailedReport rejects
LoadFailed ==
    /\ loading
    /\ closed' = TRUE
    /\ loading' = FALSE
    /\ UNCHANGED <<res, paginatedData>>

(***************************************************************************)
(* Stage mutations: KanbanBoard -> App.handleStageChange -> api -> server. *)
(***************************************************************************)
VARIABLES
    vacancies,      \* App state: the vacancy list shown
    requests,       \* HTTP requests in flight (a bag)
    responses,      \* HTTP responses in flight (a bag)
    drops,          \* stage changes made so far
    console,        \* the errors written by console.error, in order
    srvVacancies,   \* server: the vacancy rows, in creation order
    srvEvents,      \* server: the event rows, in append order
    srvClock,       \* server: time of the last write
    srvPending      \* server: stage mutations that read the stage and did not write yet

appVars == <<vacancies, requests, responses, drops, console,
            srvVacancies, srvEvents, srvClock, srvPending>>

VacancyStage == <<"new", "applied", "response", "interview", "offer", "rejected", "closed">>

COLUMNS == VacancyStage

\* the columns the user drops cards on
DropColumns == {VacancyStage[1], VacancyStage[2], VacancyStage[4]}

VacancyIds == 1..MaxVacancies

null == <<>>

Send(bag, m) == bag (+) SetToBag({m})

Receive(bag, m) == bag (-) SetToBag({m})

\* api.getVacancies: the request
apiGetVacancies == [method |-> "GET", path |-> "/vacancies", id |-> 0, stage |-> "undefined"]

\* api.updateStage(id, stage): the request
apiUpdateStage(id, stage) ==
    [method |-> "PATCH", path |-> "/vacancies/id/stage", id |-> id, stage |-> stage]

Response(m, ok, data) == [to |-> m.method, path |-> m.path, ok |-> ok, data |-> data]

\* loadVacancies(): the request it sends
loadVacancies == Send(requests, apiGetVacancies)

\* mutant: the stage is given to every vacancy of the list
handleStageChange_EveryVacancy(id, stage) ==
    /\ vacancies' = [i \in DOMAIN vacancies |-> [vacancies[i] EXCEPT !.stage = stage]]
    /\ requests' = Send(requests, apiUpdateStage(id, stage))

\* handleStageChange(id, stage): optimistic update, then api.updateStage
handleStageChange(id, stage) ==
    /\ vacancies' = [i \in DOMAIN vacancies |->
                        IF vacancies[i].id = id
                        THEN [vacancies[i] EXCEPT !.stage = stage]
                        ELSE vacancies[i]]
    /\ requests' = Send(requests, apiUpdateStage(id, stage))

\* KanbanBoard.handleDrop: a card of the board dropped on a column
handleDrop ==
    /\ drops < MaxDrops
    /\ \E i \in DOMAIN vacancies, stage \in DropColumns :
            handleStageChange(vacancies[i].id, stage)
    /\ drops' = drops + 1
    /\ UNCHANGED <<responses, console, srvVacancies, srvEvents, srvClock, srvPending>>

\* handleStageChange: await api.updateStage resolves
UpdateStageResolved ==
    /\ \E r \in BagToSet(responses) :
            /\ r.to = "PATCH" /\ r.ok
            /\ responses' = Receive(responses, r)
    /\ UNCHANGED <<vacancies, requests, drops, console,
                   srvVacancies, srvEvents, srvClock, srvPending>>

\* mutant: the failure is reported and the list is not loaded again
UpdateStageRejected_NoReload ==
    /\ \E r \in BagToSet(responses) :
            /\ r.to = "PATCH" /\ ~r.ok
            /\ responses' = Receive(responses, r)
    /\ console' = Append(console, "Failed to update stage")
    /\ UNCHANGED <<vacancies, requests, drops, srvVacancies, srvEvents, srvClock, srvPending>>

\* handleStageChange: api.updateStage throws, catch: console.error(e),
\* loadVacancies()
UpdateStageRejected ==
    /\ \E r \in BagToSet(responses) :
            /\ r.to = "PATCH" /\ ~r.ok
            /\ responses' = Receive(responses, r)
    /\ console' = Append(console, "Failed to update stage")
    /\ requests' = loadVacancies
    /\ UNCHANGED <<vacancies, drops, srvVacancies, srvEvents, srvClock, srvPending>>

\* loadVacancies: api.getVacancies resolves, setVacancies(data)
GetVacanciesResolved ==
    /\ \E r \in BagToSet(responses) :
            /\ r.to = "GET" /\ r.path = "/vacancies" /\ r.ok
            /\ vacancies' = r.data
            /\ responses' = Receive(responses, r)
    /\ UNCHANGED <<requests, drops, console, srvVacancies, srvEvents, srvClock, srvPending>>

\* loadVacancies: api.getVacancies throws, catch: console.error(e)
GetVacanciesRejected ==
    /\ \E r \in BagToSet(responses) :
            /\ r.to = "GET" /\ r.path = "/vacancies" /\ ~r.ok
            /\ responses' = Receive(responses, r)
    /\ console' = Append(console, "Failed to fetch vacancies")
    /\ UNCHANGED <<vacancies, requests, drops,
                   srvVacancies, srvEvents, srvClock, srvPending>>

(***************************************************************************)
(* The server (backend/, not part of the sources at hand): modelled from   *)
(* the specification of the event store and the vacancy projector.         *)
(***************************************************************************)
SrvRow(id, t) == [id |-> id, stage |-> "new", created_at |-> t, updated_at |-> t]

SrvEvent(n, id, t, type, from, to) ==
    [id |-> n, vacancy_id |-> id, timestamp |-> t, type |-> type,
     stage_from |-> from, stage_to |-> to]

\* the server after vacancies 1..n have been created, each in stage new
SrvCreated ==
    [rows |-> [i \in VacancyIds |-> SrvRow(i, i)],
     events |-> [i \in VacancyIds |-> SrvEvent(i, i, i, "created", "undefined", "undefined")]]

SrvStageOf(id) ==
    srvVacancies[CHOOSE i \in DOMAIN srvVacancies : srvVacancies[i].id = id].stage

\* mutant: a change to the stage the vacancy already has is not recorded
SrvUpdateStage_SkipsSameStage ==
    \E m \in BagToSet(requests) :
        /\ m.method = "PATCH"
        /\ \E i \in DOMAIN srvVacancies : srvVacancies[i].id = m.id
        /\ LET t == srvClock + 1
               i == CHOOSE i \in DOMAIN srvVacancies : srvVacancies[i].id = m.id
               prev == srvVacancies[i].stage
           IN  /\ srvEvents' = IF prev = m.stage THEN srvEvents
                               ELSE Append(srvEvents,
                                     SrvEvent(Len(srvEvents) + 1, m.id, t, "status_change",
                                              prev, m.stage))
               /\ srvVacancies' = [srvVacancies EXCEPT ![i].stage = m.stage,
                                                      ![i].updated_at = t]
               /\ srvClock' = t
        /\ requests' = Receive(requests, m)
        /\ responses' = Send(responses, Response(m, TRUE, <<>>))
        /\ UNCHANGED <<vacancies, drops, console, srvPending>>

\* PATCH /vacancies/{id}/stage: one status_change event and the new stage,
\* written together
SrvUpdateStage ==
    \E m \in BagToSet(requests) :
        /\ m.method = "PATCH"
        /\ \E i \in DOMAIN srvVacancies : srvVacancies[i].id = m.id
        /\ LET t == srvClock + 1
               i == CHOOSE i \in DOMAIN srvVacancies : srvVacancies[i].id = m.id
               prev == srvVacancies[i].stage
           IN  /\ srvEvents' = Append(srvEvents,
                                     SrvEvent(Len(srvEvents) + 1, m.id, t, "status_change",
                                              prev, m.stage))
               /\ srvVacancies' = [srvVacancies EXCEPT ![i].stage = m.stage,
                                                      ![i].updated_at = t]
               /\ srvClock' = t
        /\ requests' = Receive(requests, m)
        /\ responses' = Send(responses, Response(m, TRUE, <<>>))
        /\ UNCHANGED <<vacancies, drops, console, srvPending>>

\* GET /vacancies: the rows
SrvGetVacancies ==
    \E m \in BagToSet(requests) :
        /\ m.method = "GET" /\ m.path = "/vacancies"
        /\ requests' = Receive(requests, m)
        /\ responses' = Send(responses, Response(m, TRUE, srvVacancies))
        /\ UNCHANGED <<vacancies, drops, console,
                       srvVacancies, srvEvents, srvClock, srvPending>>

\* a request that fails (the fetch rejects or the answer is not ok)
SrvFails ==
    \E m \in BagToSet(requests) :
        /\ requests' = Receive(requests, m)
        /\ responses' = Send(responses, Response(m, FALSE, <<>>))
        /\ UNCHANGED <<vacancies, drops, console,
                       srvVacancies, srvEvents, srvClock, srvPending>>

(***************************************************************************)
(* The stage mutation of a server without locking between callers: the     *)
(* previous stage is read first; the event and the new stage are written   *)
(* together afterwards.                                                    *)
(***************************************************************************)
SrvPendingMutation(id, stage, prev) == [id |-> id, stage |-> stage, prev |-> prev]

\* PATCH /vacancies/{id}/stage, first half: read the stage the vacancy has
SrvReadStage ==
    \E m \in BagToSet(requests) :
        /\ m.method = "PATCH"
        /\ \E i \in DOMAIN srvVacancies : srvVacancies[i].id = m.id
        /\ requests' = Receive(requests, m)
        /\ srvPending' = Send(srvPending, SrvPendingMutation(m.id, m.stage, SrvStageOf(m.id)))
        /\ UNCHANGED <<vacancies, responses, drops, console,
                       srvVacancies, srvEvents, srvClock>>

\* mutant: the stage is written only when nobody changed it since it was read
SrvWriteStage_KeepsNewerStage ==
    \E p \in BagToSet(srvPending) :
        /\ LET t == srvClock + 1
               i == CHOOSE i \in DOMAIN srvVacancies : srvVacancies[i].id = p.id
           IN  /\ srvEvents' = Append(srvEvents,
                                     SrvEvent(Len(srvEvents) + 1, p.id, t, "status_change",
                                              p.prev, p.stage))
               /\ srvVacancies' = IF srvVacancies[i].stage = p.prev
                                  THEN [srvVacancies EXCEPT ![i].stage = p.stage,
                                                            ![i].updated_at = t]
                                  ELSE srvVacancies
               /\ srvClock' = t
        /\ srvPending' = Receive(srvPending, p)
        /\ responses' = Send(responses, Response(apiUpdateStage(p.id, p.stage), TRUE, <<>>))
        /\ UNCHANGED <<vacancies, requests, drops, console>>

\* PATCH /vacancies/{id}/stage, second half: one status_change event and the
\* new stage, written together
SrvWriteStage ==
    \E p \in BagToSet(srvPending) :
        /\ LET t == srvClock + 1
               i == CHOOSE i \in DOMAIN srvVacancies : srvVacancies[i].id = p.id
           IN  /\ srvEvents' = Append(srvEvents,
                                     SrvEvent(Len(srvEvents) + 1, p.id, t, "status_change",
                                              p.prev, p.stage))
               /\ srvVacancies' = [srvVacancies EXCEPT ![i].stage = p.stage,
                                                      ![i].updated_at = t]
               /\ srvClock' = t
        /\ srvPending' = Receive(srvPending, p)
        /\ responses' = Send(responses, Response(apiUpdateStage(p.id, p.stage), TRUE, <<>>))
        /\ UNCHANGED <<vacancies, requests, drops, console>>

(***************************************************************************)
(* The period aggregator of the server (backend/, not part of the sources  *)
(* at hand): modelled from the specification, section 4.3.  Timestamps are *)
(* instants counted from the first instant of January of EpochYear, each   *)
(* month lasting TicksPerMonth instants.                                   *)
(***************************************************************************)
FirstInstant(y, m) == ((y - EpochYear) * 12 + (m - 1)) * TicksPerMonth

PeriodStart(p) == FirstInstant(p.year, p.month)

PeriodEnd(p) ==
    IF p.month = 12 THEN FirstInstant(p.year + 1, 1) ELSE FirstInstant(p.year, p.month + 1)

AllTime(p) == p.month = -1

\* mutant: the first instant of the next month is taken into the period
InPeriod_EndInclusive(t, p) == AllTime(p) \/ (PeriodStart(p) <= t /\ t <= PeriodEnd(p))

InPeriod(t, p) == AllTime(p) \/ (PeriodStart(p) <= t /\ t < PeriodEnd(p))

Categories == <<"new_vacancies_count", "applications_sent", "responses", "interviews",
                "offers", "rejected", "closed">>

\* mutant: a stage change is classified by the stage it leaves
Category_ByStageFrom(e) ==
    CASE e.type = "created" -> "new_vacancies_count"
      [] e.type = "status_change" /\ e.stage_from = "applied" -> "applications_sent"
      [] e.type = "status_change" /\ e.stage_from = "response" -> "responses"
      [] e.type = "status_change" /\ e.stage_from = "interview" -> "interviews"
      [] e.type = "status_change" /\ e.stage_from = "offer" -> "offers"
      [] e.type = "status_change" /\ e.stage_from = "rejected" -> "rejected"
      [] e.type = "status_change" /\ e.stage_from = "closed" -> "closed"
      [] OTHER -> "none"

\* the category an event is classified into, or none
Category(e) ==
    CASE e.type = "created" -> "new_vacancies_count"
      [] e.type = "status_change" /\ e.stage_to = "applied" -> "applications_sent"
      [] e.type = "status_change" /\ e.stage_to = "response" -> "responses"
      [] e.type = "status_change" /\ e.stage_to = "interview" -> "interviews"
      [] e.type = "status_change" /\ e.stage_to = "offer" -> "offers"
      [] e.type = "status_change" /\ e.stage_to = "rejected" -> "rejected"
      [] e.type = "status_change" /\ e.stage_to = "closed" -> "closed"
      [] OTHER -> "none"

EmptyMetric == [count |-> 0, ids |-> <<>>]

EmptyMetrics ==
    [new_vacancies_count |-> EmptyMetric, activities_count |-> 0,
     applications_sent |-> EmptyMetric, responses |-> EmptyMetric,
     interviews |-> EmptyMetric, offers |-> EmptyMetric,
     rejected |-> EmptyMetric, closed |-> EmptyMetric]

Contains(seq, x) == \E i \in DOMAIN seq : seq[i] = x

\* mutant: only the events of a category are counted as activities
Accumulate_SkipsUnclassified(m, e) ==
    LET c == Category(e)
    IN  IF c = "none" THEN m
        ELSE [m EXCEPT !.activities_count = @ + 1,
                       ![c] = [count |-> @.count + 1,
                               ids |-> IF Contains(@.ids, e.vacancy_id) THEN @.ids
                                       ELSE Append(@.ids, e.vacancy_id)]]

\* mutant: the id of every contributing event is appended
Accumulate_RepeatsIds(m, e) ==
    LET c == Category(e)
    IN  IF c = "none" THEN [m EXCEPT !.activities_count = @ + 1]
        ELSE [m EXCEPT !.activities_count = @ + 1,
                       ![c] = [count |-> @.count + 1, ids |-> Append(@.ids, e.vacancy_id)]]

\* one in-period event added to the metrics
Accumulate(m, e) ==
    LET c == Category(e)
    IN  IF c = "none" THEN [m EXCEPT !.activities_count = @ + 1]
        ELSE [m EXCEPT !.activities_count = @ + 1,
                       ![c] = [count |-> @.count + 1,
                               ids |-> IF Contains(@.ids, e.vacancy_id) THEN @.ids
                                       ELSE Append(@.ids, e.vacancy_id)]]

RECURSIVE AggregateFrom(_, _, _, _)
AggregateFrom(events, k, p, m) ==
    IF k > Len(events) THEN m
    ELSE AggregateFrom(events, k + 1, p,
                       IF InPeriod(events[k].timestamp, p) THEN Accumulate(m, events[k]) ELSE m)

\* aggregate(events, period) -> AnalyticsReport.metrics
aggregate(events, p) == AggregateFrom(events, 1, p, EmptyMetrics)

\* getReport(period) -> AnalyticsReport
getReport(events, p) ==
    [period |-> p,
     metrics |-> aggregate(events, p),
     recent_activity |-> SelectSeq(events, LAMBDA e : InPeriod(e.timestamp, p))]

\* mutant: the report request is itself recorded as an event
SrvGetReport_RecordsView ==
    \E m \in BagToSet(requests) :
        /\ m.method = "GET" /\ m.path = "/analytics/report"
        /\ requests' = Receive(requests, m)
        /\ responses' = Send(responses,
                Response(m, TRUE, getReport(srvEvents, [year |-> m.year, month |-> m.month])))
        /\ srvEvents' = Append(srvEvents,
                SrvEvent(Len(srvEvents) + 1, 0, srvClock, "report_viewed",
                         "undefined", "undefined"))
        /\ UNCHANGED <<vacancies, drops, console, srvVacancies, srvClock, srvPending>>

\* GET /analytics/report?year=&month=
SrvGetReport ==
    \E m \in BagToSet(requests) :
        /\ m.method = "GET" /\ m.path = "/analytics/report"
        /\ requests' = Receive(requests, m)
        /\ responses' = Send(responses,
                Response(m, TRUE, getReport(srvEvents, [year |-> m.year, month |-> m.month])))
        /\ UNCHANGED <<vacancies, drops, console,
                       srvVacancies, srvEvents, srvClock, srvPending>>

(***************************************************************************)
(* DashboardView                                                           *)
(***************************************************************************)
VARIABLES
    selectedMonth,  \* 0..11, or -1 for All Time
    selectedYear,
    report,         \* the AnalyticsReport held, or null
    loadingReport

dashVars == <<selectedMonth, selectedYear, report, loadingReport>>

\* api.getReport(year, month): the request
apiGetReport(y, m) == [method |-> "GET", path |-> "/analytics/report", year |-> y, month |-> m]

\* loadBackendStats: the month sent for the month selected
targetMonth == IF selectedMonth = -1 THEN -1 ELSE selectedMonth + 1

\* loadBackendStats: await api.getReport resolves, setReport(data)
ReportResolved ==
    /\ \E r \in BagToSet(responses) :
            /\ r.to = "GET" /\ r.path = "/analytics/report" /\ r.ok
            /\ report' = r.data
            /\ responses' = Receive(responses, r)
    /\ loadingReport' = FALSE
    /\ UNCHANGED <<selectedMonth, selectedYear>>
    /\ UNCHANGED <<vacancies, requests, drops, console,
                   srvVacancies, srvEvents, srvClock, srvPending>>

\* loadBackendStats: api.getReport throws, catch: console.error
ReportRejected ==
    /\ \E r \in BagToSet(responses) :
            /\ r.to = "GET" /\ r.path = "/analytics/report" /\ ~r.ok
            /\ responses' = Receive(responses, r)
    /\ console' = Append(console, "Failed to load dashboard stats")
    /\ loadingReport' = FALSE
    /\ UNCHANGED <<selectedMonth, selectedYear, report>>
    /\ UNCHANGED <<vacancies, requests, drops, srvVacancies, srvEvents, srvClock, srvPending>>

\* DashboardView not mounted
InitNoDashboard ==
    /\ selectedMonth = -1
    /\ selectedYear = EpochYear
    /\ report = null
    /\ loadingReport = FALSE

(***************************************************************************)
(* DashboardView.stats and KanbanBoard.grouped, computed from the          *)
(* vacancies passed in.  Dates are days.                                   *)
(***************************************************************************)
VARIABLES
    now,            \* Date.now(), in days
    stats,          \* DashboardView: the value of the stats memo, or null
    grouped         \* KanbanBoard: the value of the grouped memo, or null

viewVars == <<now, stats, grouped>>

\* an empty date string
EmptyString == 0

\* new Date(Date.now() - 7 * 24 * 60 * 60 * 1000)
sevenDaysAgo == now - 7

\* v.updated_at && v.updated_at !== v.created_at ? v.updated_at : v.created_at
updateDate(v) ==
    IF v.updated_at # EmptyString /\ v.updated_at # v.created_at
    THEN v.updated_at ELSE v.created_at

\* the vacancies counted in Active Pipeline
IsActive(v) == v.stage # "closed" /\ v.stage # "rejected" /\ v.stage # "new"

\* the filter of staleItems
IsStale(v) ==
    IF v.stage = "closed" \/ v.stage = "rejected" \/ v.stage = "new" THEN FALSE
    ELSE IF v.stage \notin {"applied", "response"} THEN FALSE
    ELSE updateDate(v) < sevenDaysAgo

\* the stats memo: total, active, staleItems
Stats(vs) ==
    [total |-> Len(vs),
     active |-> Len(SelectSeq(vs, IsActive)),
     staleItems |-> SelectSeq(vs, IsStale)]

\* JavaScript values of the stats memo: a number, an object, NaN
Num(n) == [type |-> "number", n |-> n]

Obj(o) == [type |-> "object", o |-> o]

NaN == [type |-> "NaN"]

\* x used as a condition: an object is true, a number unless it is 0, NaN is not
Truthy(x) == x.type = "object" \/ (x.type = "number" /\ x.n # 0)

\* x || 0
OrZero(x) == IF Truthy(x) THEN x ELSE Num(0)

\* metrics?.name || 0: 0 when no report is held, else the value the report
\* has under that name, which is an object { count, ids }
Metric(rep, name) ==
    IF rep = null THEN Num(0) ELSE OrZero(Obj(rep.metrics[name]))

\* Math.round((a / b) * 100) for b that is true as a condition; an object in
\* a division is NaN
RoundedPercent(a, b) ==
    IF a.type = "number" /\ b.type = "number"
    THEN Num((200 * a.n + b.n) \div (2 * b.n))
    ELSE NaN

\* Math.max(x, 1)
MaxWithOne(x) == IF x.type = "number" THEN Num(IF x.n > 1 THEN x.n ELSE 1) ELSE NaN

\* the stats memo: counts, responseRate, interviewRate, maxVal
Funnel(rep) ==
    LET counts == [applied |-> Metric(rep, "applications_sent"),
                   response |-> Metric(rep, "responses"),
                   interview |-> Metric(rep, "interviews"),
                   offer |-> Metric(rep, "offers")]
    IN  [counts |-> counts,
         responseRate |-> IF Truthy(counts.applied)
                          THEN RoundedPercent(counts.response, counts.applied)
                          ELSE Num(0),
         interviewRate |-> IF Truthy(counts.applied)
                           THEN RoundedPercent(counts.interview, counts.applied)
                           ELSE Num(0),
         maxVal |-> MaxWithOne(counts.applied)]

\* DashboardView renders: useMemo computes stats
RenderDashboard ==
    /\ stats = null
    /\ stats' = Stats(vacancies)
    /\ UNCHANGED <<now, grouped>>

\* the names every object inherits from Object.prototype
ObjectPrototype ==
    {"constructor", "toString", "valueOf", "hasOwnProperty", "isPrototypeOf",
     "propertyIsEnumerable", "toLocaleString", "__proto__"}

\* groups after COLUMNS.forEach(col => groups[col.id] = [])
EmptyGroups == [c \in {COLUMNS[i] : i \in DOMAIN COLUMNS} |-> <<>>]

\* groups[v.stage]: an own property (a column), an inherited one, or undefined
GroupsLookup(groups, stage) ==
    IF stage \in DOMAIN groups THEN "column"
    ELSE IF stage \in ObjectPrototype THEN "inherited"
    ELSE "undefined"

\* vacancies.forEach(v => ...) from the k-th vacancy on; an inherited
\* property is truthy and has no push: TypeError
RECURSIVE GroupFrom(_, _, _)
GroupFrom(vs, k, groups) ==
    IF k > Len(vs) THEN [groups |-> groups, error |-> "none"]
    ELSE LET v == vs[k]
             found == GroupsLookup(groups, v.stage)
         IN  IF found = "column"
             THEN GroupFrom(vs, k + 1, [groups EXCEPT ![v.stage] = Append(@, v)])
             ELSE IF found = "inherited"
             THEN [groups |-> groups, error |-> "TypeError"]
             ELSE GroupFrom(vs, k + 1, [groups EXCEPT !["new"] = Append(@, v)])

\* the grouped memo
Grouped(vs) == GroupFrom(vs, 1, EmptyGroups)

\* KanbanBoard renders: useMemo computes grouped
RenderBoard ==
    /\ grouped = null
    /\ grouped' = Grouped(vacancies)
    /\ UNCHANGED <<now, stats>>

(***************************************************************************)
(* SettingsProvider: the theme and the report language, kept in state, in  *)
(* localStorage and, for the theme, in the class list of the document root.*)
(***************************************************************************)
VARIABLES
    theme,              \* state: theme
    reportLanguage,     \* state: reportLanguage
    localStorage,       \* the items of localStorage: key -> string
    classList,          \* document.documentElement.classList
    provider,           \* "unmounted", "rendered" (effect pending), "mounted"
    lastSet             \* history: the last arguments of setTheme, setReportLanguage

settingsVars == <<theme, reportLanguage, localStorage, classList, provider, lastSet>>

\* type Theme, type Language
Themes == {"dark", "light"}
Languages == {"en", "de"}

\* localStorage.getItem(key) || fallback: an absent key gives null, and null
\* and the empty string are falsy
getItemOr(key, fallback) ==
    IF key \in DOMAIN localStorage /\ localStorage[key] # ""
    THEN localStorage[key] ELSE fallback

\* localStorage.setItem(key, value)
setItem(store, key, value) ==
    [k \in DOMAIN store \cup {key} |-> IF k = key THEN value ELSE store[k]]

\* mutant: the class of the root is left as it is
setTheme_KeepsClass(t) ==
    /\ theme' = t
    /\ localStorage' = setItem(localStorage, "theme", t)
    /\ classList' = classList
    /\ lastSet' = [lastSet EXCEPT !.theme = t]
    /\ UNCHANGED reportLanguage

\* setTheme(t)
setTheme(t) ==
    /\ theme' = t
    /\ localStorage' = setItem(localStorage, "theme", t)
    /\ classList' = IF t = "dark" THEN classList \cup {"dark"} ELSE classList \ {"dark"}
    /\ lastSet' = [lastSet EXCEPT !.theme = t]
    /\ UNCHANGED reportLanguage

\* the provider renders for the first time: the useState initializers
ProviderRenders ==
    /\ provider = "unmounted"
    /\ provider' = "rendered"
    /\ theme' = getItemOr("theme", "dark")
    /\ reportLanguage' = getItemOr("reportLanguage", "en")
    /\ UNCHANGED <<localStorage, classList, lastSet>>

\* useEffect(() => { setTheme(theme) }, [])
InitialEffect ==
    /\ provider = "rendered"
    /\ provider' = "mounted"
    /\ setTheme(theme)

\* a consumer calls setTheme
ThemeChosen ==
    /\ provider = "mounted"
    /\ \E t \in Themes : setTheme(t)
    /\ UNCHANGED provider

\* a consumer calls setReportLanguage(l)
setReportLanguage ==
    /\ provider = "mounted"
    /\ \E l \in Languages :
            /\ reportLanguage' = l
            /\ localStorage' = setItem(localStorage, "reportLanguage", l)
            /\ lastSet' = [lastSet EXCEPT !.reportLanguage = l]
    /\ UNCHANGED <<theme, classList, provider>>

\* the page is left: the provider and the document are gone, localStorage stays;
\* the next document starts with the class list of its markup
PageLeft ==
    /\ provider = "mounted"
    /\ provider' = "unmounted"
    /\ classList' \in {{}, {"dark"}}
    /\ UNCHANGED <<theme, reportLanguage, localStorage, lastSet>>

\* what localStorage can hold before the application ever ran, or after the
\* user edited it
StoredThemes == {"", "dark", "light", "blue"}
StoredLanguages == {"", "en", "de", "fr"}

InitSettings ==
    /\ provider = "unmounted"
    /\ theme = "dark"
    /\ reportLanguage = "en"
    /\ classList \in {{}, {"dark"}}
    /\ lastSet = [theme |-> "none", reportLanguage |-> "none"]
    /\ localStorage \in
            {<<>>} \cup {[k \in {"theme"} |-> t] : t \in StoredThemes}
                \cup {[k \in {"reportLanguage"} |-> l] : l \in StoredLanguages}
                \cup {[k \in {"theme", "reportLanguage"} |->
                            IF k = "theme" THEN t ELSE l] :
                        t \in StoredThemes, l \in StoredLanguages}

\* no provider
InitNoSettings ==
    /\ provider = "unmounted"
    /\ theme = "dark"
    /\ reportLanguage = "en"
    /\ classList = {}
    /\ lastSet = [theme |-> "none", reportLanguage |-> "none"]
    /\ localStorage = <<>>

(***************************************************************************)
(* VacancyDetailsModal: the state of the modal that shows selectedVacancy. *)
(***************************************************************************)
VARIABLES
    modalEvents,        \* state: events
    modalLoading,       \* state: loading
    notes,              \* state: notes
    isSavingNotes,      \* state: isSavingNotes
    savedSuccess,       \* state: savedSuccess
    timers,             \* the setTimeout callbacks not run yet (a bag)
    modalId,            \* the number of modals mounted so far: the one open is the last
    blurs               \* times the notes field was left so far

modalVars ==
    <<modalEvents, modalLoading, notes, isSavingNotes, savedSuccess, timers, modalId, blurs>>

\* no modal was ever opened
InitNoModal ==
    /\ modalEvents = <<>>
    /\ modalLoading = TRUE
    /\ notes = ""
    /\ isSavingNotes = FALSE
    /\ savedSuccess = FALSE
    /\ timers = EmptyBag
    /\ modalId = 0
    /\ blurs = 0

(***************************************************************************)
(* AddVacancyModal, the vacancy form, and the App state that shows it.     *)
(***************************************************************************)
VARIABLES
    showAddModal,       \* App state: the form is shown
    editingVacancy,     \* App state: the vacancy being edited, or null
    formData,           \* AddVacancyModal state: formData
    formLoading,        \* AddVacancyModal state: loading
    formId,             \* the number of forms mounted so far: the one shown is the last
    openedFor,          \* history: the vacancy the form shown was opened for, or null
    submits             \* submissions made so far

formVars == <<showAddModal, editingVacancy, formData, formLoading, formId, openedFor, submits>>

\* no form was ever opened
InitNoForm ==
    /\ showAddModal = FALSE
    /\ editingVacancy = null
    /\ formData = null
    /\ formLoading = FALSE
    /\ formId = 0
    /\ openedFor = null
    /\ submits = 0

\* the variables of the components outside the vacancy list
uiVars == <<settingsVars, modalVars, formVars>>

InitNoUi == InitNoSettings /\ InitNoModal /\ InitNoForm

(***************************************************************************)
(* App with DashboardView shown: the details modal, deleting a vacancy,    *)
(* and the statistics loaded again whenever the list changes.              *)
(***************************************************************************)
VARIABLES
    selectedVacancy,    \* the vacancy shown in VacancyDetailsModal, or null
    deletes,            \* deletions confirmed so far
    selections          \* months picked so far

userVars == <<selectedVacancy, deletes, selections>>

\* neither view rendered, no modal
InitNoRender ==
    /\ now = 0
    /\ stats = null
    /\ grouped = null
    /\ selectedVacancy = null
    /\ deletes = 0
    /\ selections = 0
    /\ InitNoUi

\* api.deleteVacancy(id): the request
apiDeleteVacancy(id) == [method |-> "DELETE", path |-> "/vacancies/id", id |-> id]

\* DashboardView: a vacancy of Needs Attention clicked, onNavigate(v):
\* setSelectedVacancy(v)
onNavigate ==
    /\ stats # null
    /\ \E i \in DOMAIN stats.staleItems : selectedVacancy' = stats.staleItems[i]
    /\ UNCHANGED <<deletes, selections, appVars, dashVars, viewVars>>

\* VacancyDetailsModal: onClose: setSelectedVacancy(null)
onClose ==
    /\ selectedVacancy # null
    /\ selectedVacancy' = null
    /\ UNCHANGED <<deletes, selections, appVars, dashVars, viewVars>>

\* VacancyDetailsModal: onDelete(vacancy.id): handleDeleteVacancy, confirmed,
\* up to await api.deleteVacancy
handleDeleteVacancy ==
    /\ selectedVacancy # null
    /\ deletes < MaxDeletes
    /\ deletes' = deletes + 1
    /\ requests' = Send(requests, apiDeleteVacancy(selectedVacancy.id))
    /\ UNCHANGED <<selectedVacancy, selections, vacancies, responses, drops, console,
                   srvVacancies, srvEvents, srvClock, srvPending, dashVars, viewVars>>

\* handleDeleteVacancy: api.deleteVacancy resolves: loadVacancies(),
\* setSelectedVacancy(null)
DeleteResolved ==
    /\ \E r \in BagToSet(responses) :
            /\ r.to = "DELETE" /\ r.ok
            /\ responses' = Receive(responses, r)
    /\ requests' = loadVacancies
    /\ selectedVacancy' = null
    /\ UNCHANGED <<deletes, selections, vacancies, drops, console,
                   srvVacancies, srvEvents, srvClock, srvPending, dashVars, viewVars>>

\* handleDeleteVacancy: api.deleteVacancy throws: nothing catches it
DeleteRejected ==
    /\ \E r \in BagToSet(responses) :
            /\ r.to = "DELETE" /\ ~r.ok
            /\ responses' = Receive(responses, r)
    /\ UNCHANGED <<userVars, vacancies, requests, drops, console,
                   srvVacancies, srvEvents, srvClock, srvPending, dashVars, viewVars>>

\* the months of the month select that are picked
DashboardMonths == {-1, 0, 1}

\* DashboardView: the month select changed: setSelectedMonth(Number(value));
\* the effect runs loadBackendStats() with the new month
selectMonth ==
    /\ selections < MaxSelections
    /\ selections' = selections + 1
    /\ \E m \in DashboardMonths \ {selectedMonth} : selectedMonth' = m
    /\ loadingReport' = TRUE
    /\ requests' = Send(requests, apiGetReport(selectedYear, targetMonth'))
    /\ UNCHANGED <<selectedVacancy, deletes, vacancies, responses, drops, console,
                   srvVacancies, srvEvents, srvClock, srvPending,
                   selectedYear, report, viewVars>>

\* loadBackendStats(), up to await api.getReport
loadBackendStats(bag) == Send(bag, apiGetReport(selectedYear, targetMonth))

\* loadVacancies resolves while DashboardView is shown: setVacancies(data);
\* the view renders with the new list (stats) and its effect runs
\* loadBackendStats()
VacanciesLoadedOnDashboard ==
    /\ \E r \in BagToSet(responses) :
            /\ r.to = "GET" /\ r.path = "/vacancies" /\ r.ok
            /\ vacancies' = r.data
            /\ responses' = Receive(responses, r)
    /\ stats' = Stats(vacancies')
    /\ loadingReport' = TRUE
    /\ requests' = loadBackendStats(requests)
    /\ UNCHANGED <<userVars, drops, console, srvVacancies, srvEvents, srvClock, srvPending,
                   selectedMonth, selectedYear, report, now, grouped>>

\* mutant: the events of the vacancy are purged with it
SrvDeleteVacancy_PurgesEvents ==
    \E m \in BagToSet(requests) :
        /\ m.method = "DELETE"
        /\ \E i \in DOMAIN srvVacancies : srvVacancies[i].id = m.id
        /\ srvVacancies' = SelectSeq(srvVacancies, LAMBDA v : v.id # m.id)
        /\ srvEvents' = SelectSeq(srvEvents, LAMBDA e : e.vacancy_id # m.id)
        /\ requests' = Receive(requests, m)
        /\ responses' = Send(responses, Response(m, TRUE, <<>>))
        /\ UNCHANGED <<vacancies, drops, console, srvClock, srvPending>>

\* DELETE /vacancies/{id}: the vacancy is removed, its events stay (the server
\* is modelled from the specification)
SrvDeleteVacancy ==
    \E m \in BagToSet(requests) :
        /\ m.method = "DELETE"
        /\ \E i \in DOMAIN srvVacancies : srvVacancies[i].id = m.id
        /\ srvVacancies' = SelectSeq(srvVacancies, LAMBDA v : v.id # m.id)
        /\ requests' = Receive(requests, m)
        /\ responses' = Send(responses, Response(m, TRUE, <<>>))
        /\ UNCHANGED <<vacancies, drops, console, srvEvents, srvClock, srvPending>>

(***************************************************************************)
(* App with VacancyDetailsModal open: the stage select of the modal and    *)
(* the events it loads.                                                    *)
(***************************************************************************)
\* a value of an optional attribute that is null or undefined (no text of the
\* model is spelled like these)
JsNull == "null"
JsUndefined == "undefined"

\* x || fallback for a string, null or undefined
OrElse(x, fallback) == IF x \in {JsNull, JsUndefined, ""} THEN fallback ELSE x

\* vacancy.notes
NotesOf(v) == IF "notes" \in DOMAIN v THEN v.notes ELSE JsUndefined

\* api.getEvents(id), called by the modal mounted as number modal
apiGetEvents(id, modal) ==
    [method |-> "GET", path |-> "/vacancies/id/events", id |-> id, modal |-> modal]

\* setTimeout(loadEvents, 500): loadEvents of the render that set it
Timer(id, modal) == [id |-> id, modal |-> modal]

\* KanbanBoard onVacancyClick: setSelectedVacancy(v); the modal mounts and its
\* effect runs loadEvents() and setNotes(vacancy.notes || '')
onVacancyClick ==
    /\ selectedVacancy = null
    /\ modalId < MaxOpens
    /\ modalId' = modalId + 1
    /\ \E i \in DOMAIN vacancies :
            /\ selectedVacancy' = vacancies[i]
            /\ notes' = OrElse(NotesOf(vacancies[i]), "")
            /\ requests' = Send(requests, apiGetEvents(vacancies[i].id, modalId'))
    /\ modalEvents' = <<>>
    /\ modalLoading' = TRUE
    /\ isSavingNotes' = FALSE
    /\ savedSuccess' = FALSE
    /\ UNCHANGED <<timers, blurs, deletes, selections, vacancies, responses, drops, console,
                   srvVacancies, srvEvents, srvClock, srvPending>>

\* VacancyDetailsModal.handleStageChange: onStatusChange(vacancy.id, newStage),
\* that is App.handleStageChange, then setTimeout(loadEvents, 500)
ModalStageChange ==
    /\ selectedVacancy # null
    /\ drops < MaxChanges
    /\ drops' = drops + 1
    /\ \E stage \in DropColumns : handleStageChange(selectedVacancy.id, stage)
    /\ timers' = Send(timers, Timer(selectedVacancy.id, modalId))
    /\ UNCHANGED <<modalEvents, modalLoading, notes, isSavingNotes, savedSuccess, modalId, blurs,
                   userVars, responses, console, srvVacancies, srvEvents, srvClock, srvPending>>

\* the 500 ms have passed: loadEvents(), up to await api.getEvents
TimerFires ==
    /\ \E t \in BagToSet(timers) :
            /\ "id" \in DOMAIN t
            /\ timers' = Receive(timers, t)
            /\ requests' = Send(requests, apiGetEvents(t.id, t.modal))
    /\ UNCHANGED <<modalEvents, modalLoading, notes, isSavingNotes, savedSuccess, modalId, blurs,
                   userVars, vacancies, responses, drops, console,
                   srvVacancies, srvEvents, srvClock, srvPending>>

\* the modal that asked is the one open
StillOpen(modal) == selectedVacancy # null /\ modal = modalId

\* loadEvents: api.getEvents resolves: setEvents(data), finally setLoading(false)
EventsResolved ==
    /\ \E r \in BagToSet(responses) :
            /\ r.to = "GET" /\ r.path = "/vacancies/id/events" /\ r.ok
            /\ responses' = Receive(responses, r)
            /\ IF StillOpen(r.modal)
               THEN modalEvents' = r.data /\ modalLoading' = FALSE
               ELSE UNCHANGED <<modalEvents, modalLoading>>
    /\ UNCHANGED <<notes, isSavingNotes, savedSuccess, timers, modalId, blurs,
                   userVars, vacancies, requests, drops, console,
                   srvVacancies, srvEvents, srvClock, srvPending>>

\* loadEvents: api.getEvents throws: console.error(e), finally setLoading(false)
EventsRejected ==
    /\ \E r \in BagToSet(responses) :
            /\ r.to = "GET" /\ r.path = "/vacancies/id/events" /\ ~r.ok
            /\ responses' = Receive(responses, r)
            /\ IF StillOpen(r.modal)
               THEN modalLoading' = FALSE
               ELSE UNCHANGED modalLoading
    /\ console' = Append(console, "Failed to fetch events")
    /\ UNCHANGED <<modalEvents, notes, isSavingNotes, savedSuccess, timers, modalId, blurs,
                   userVars, vacancies, requests, drops,
                   srvVacancies, srvEvents, srvClock, srvPending>>

\* GET /vacancies/{id}/events: the events of the vacancy, in append order (the
\* server is modelled from the specification)
SrvGetEvents ==
    \E m \in BagToSet(requests) :
        /\ m.method = "GET" /\ m.path = "/vacancies/id/events"
        /\ requests' = Receive(requests, m)
        /\ responses' = Send(responses,
                [to |-> m.method, path |-> m.path, ok |-> TRUE, modal |-> m.modal,
                 data |-> SelectSeq(srvEvents, LAMBDA e : e.vacancy_id = m.id)])
        /\ UNCHANGED <<vacancies, drops, console,
                       srvVacancies, srvEvents, srvClock, srvPending>>

\* a request of a modal that fails
SrvFailsModal ==
    \E m \in BagToSet(requests) :
        /\ m.method = "GET" /\ m.path = "/vacancies/id/events"
        /\ requests' = Receive(requests, m)
        /\ responses' = Send(responses,
                [to |-> m.method, path |-> m.path, ok |-> FALSE, modal |-> m.modal,
                 data |-> <<>>])
        /\ UNCHANGED <<vacancies, drops, console,
                       srvVacancies, srvEvents, srvClock, srvPending>>

\* a request for a vacancy the server does not hold: 404
SrvNotFound ==
    \E m \in BagToSet(requests) :
        /\ m.method \in {"PATCH", "DELETE"}
        /\ \A i \in DOMAIN srvVacancies : srvVacancies[i].id # m.id
        /\ requests' = Receive(requests, m)
        /\ responses' = Send(responses, Response(m, FALSE, <<>>))
        /\ UNCHANGED <<vacancies, drops, console,
                       srvVacancies, srvEvents, srvClock, srvPending>>

(***************************************************************************)
(* VacancyDetailsModal: the notes field.                                   *)
(***************************************************************************)
\* what the user leaves in the notes field
NoteTexts == {"", "call back"}

\* the attributes of a vacancy other than its notes
Attributes ==
    {"company", "position", "location", "work_format", "link",
     "salary_min", "salary_max", "currency", "source", "contacts"}

\* handleNotesBlur: updateData
updateData(v, text) ==
    [company |-> v.company, position |-> v.position, location |-> v.location,
     work_format |-> v.work_format, link |-> v.link,
     salary_min |-> v.salary_min, salary_max |-> v.salary_max,
     currency |-> v.currency, source |-> v.source, contacts |-> v.contacts,
     notes |-> text]

\* api.updateVacancy(id, updateData), awaited by handleNotesBlur of the modal
\* mounted as number modal
apiUpdateNotes(id, data, modal) ==
    [method |-> "PUT", path |-> "/vacancies/id", id |-> id, data |-> data, modal |-> modal]

NotesResponse(m, ok, data) ==
    [to |-> m.method, path |-> m.path, ok |-> ok, data |-> data, modal |-> m.modal]

\* setTimeout(() => setSavedSuccess(false), 2000) of the modal
SavedTimer(modal) == [saved |-> modal]

\* the notes textarea: setNotes(e.target.value)
NotesTyped ==
    /\ selectedVacancy # null
    /\ \E text \in NoteTexts \ {notes} : notes' = text
    /\ UNCHANGED <<modalEvents, modalLoading, isSavingNotes, savedSuccess, timers, modalId,
                   blurs, appVars, userVars>>

\* handleNotesBlur, up to await api.updateVacancy
handleNotesBlur ==
    /\ selectedVacancy # null
    /\ blurs < MaxBlurs
    /\ blurs' = blurs + 1
    /\ IF notes # NotesOf(selectedVacancy)
       THEN /\ isSavingNotes' = TRUE
            /\ requests' = Send(requests,
                    apiUpdateNotes(selectedVacancy.id, updateData(selectedVacancy, notes),
                                   modalId))
       ELSE UNCHANGED <<isSavingNotes, requests>>
    /\ UNCHANGED <<modalEvents, modalLoading, notes, savedSuccess, timers, modalId,
                   vacancies, responses, drops, console,
                   srvVacancies, srvEvents, srvClock, srvPending, userVars>>

\* handleVacancyUpdateSync(updated) on the list
SyncedList(updated) ==
    [i \in DOMAIN vacancies |->
        IF vacancies[i].id = updated.id THEN updated ELSE vacancies[i]]

\* handleNotesBlur: api.updateVacancy resolves: onUpdate(updated), that is
\* handleVacancyUpdateSync of the render that showed the vacancy (its
\* selectedVacancy is that vacancy, so setSelectedVacancy(updated) is called);
\* setSavedSuccess(true), the timer, finally setIsSavingNotes(false). The
\* setters of a modal no longer mounted do nothing; setSelectedVacancy of a
\* closed modal mounts a new one, whose effect runs
NotesSaved ==
    \E r \in BagToSet(responses) :
        /\ r.to = "PUT" /\ "modal" \in DOMAIN r /\ r.ok
        /\ responses' = Receive(responses, r)
        /\ vacancies' = SyncedList(r.data)
        /\ selectedVacancy' = r.data
        /\ timers' = Send(timers, SavedTimer(r.modal))
        /\ IF selectedVacancy = null
           THEN /\ modalId < MaxOpens
                /\ modalId' = modalId + 1
                /\ notes' = OrElse(NotesOf(r.data), "")
                /\ modalEvents' = <<>>
                /\ modalLoading' = TRUE
                /\ isSavingNotes' = FALSE
                /\ savedSuccess' = FALSE
                /\ requests' = Send(requests, apiGetEvents(r.data.id, modalId'))
           ELSE /\ UNCHANGED <<modalId, modalEvents, modalLoading>>
                /\ IF r.modal = modalId
                   THEN isSavingNotes' = FALSE /\ savedSuccess' = TRUE
                   ELSE UNCHANGED <<isSavingNotes, savedSuccess>>
                /\ IF selectedVacancy.id = r.data.id
                   THEN UNCHANGED <<notes, requests>>
                   ELSE /\ notes' = OrElse(NotesOf(r.data), "")
                        /\ requests' = Send(requests, apiGetEvents(r.data.id, modalId))
        /\ UNCHANGED <<blurs, deletes, selections, drops, console,
                       srvVacancies, srvEvents, srvClock, srvPending>>

\* handleNotesBlur: api.updateVacancy throws: console.error, finally
\* setIsSavingNotes(false)
NotesRejected ==
    /\ \E r \in BagToSet(responses) :
            /\ r.to = "PUT" /\ "modal" \in DOMAIN r /\ ~r.ok
            /\ responses' = Receive(responses, r)
            /\ IF StillOpen(r.modal)
               THEN isSavingNotes' = FALSE
               ELSE UNCHANGED isSavingNotes
    /\ console' = Append(console, "Failed to save notes")
    /\ UNCHANGED <<modalEvents, modalLoading, notes, savedSuccess, timers, modalId, blurs,
                   userVars, vacancies, requests, drops,
                   srvVacancies, srvEvents, srvClock, srvPending>>

\* the 2000 ms have passed: setSavedSuccess(false)
SavedTimerFires ==
    /\ \E t \in BagToSet(timers) :
            /\ "saved" \in DOMAIN t
            /\ timers' = Receive(timers, t)
            /\ IF StillOpen(t.saved)
               THEN savedSuccess' = FALSE
               ELSE UNCHANGED savedSuccess
    /\ UNCHANGED <<modalEvents, modalLoading, notes, isSavingNotes, modalId, blurs,
                   appVars, userVars>>

\* a vacancy as the server stores it, with its attributes
FullRow(id, t, contacts, text) ==
    [id |-> id, stage |-> "new", created_at |-> t, updated_at |-> t,
     company |-> "acme", position |-> "engineer", location |-> JsUndefined,
     work_format |-> "remote", link |-> "", salary_min |-> 0, salary_max |-> 0,
     currency |-> "EUR", source |-> JsNull, contacts |-> contacts, notes |-> text]

\* a text attribute of the request body: undefined is left out of the JSON,
\* the attribute stored is kept
Stored(row, data, attribute) ==
    IF data[attribute] = JsUndefined THEN row[attribute] ELSE data[attribute]

\* PUT /vacancies/{id}, from the notes field: the attributes of the body are
\* stored (the server is modelled from the specification)
SrvUpdateNotes ==
    \E m \in BagToSet(requests) :
        /\ m.method = "PUT" /\ "modal" \in DOMAIN m
        /\ \E i \in DOMAIN srvVacancies :
                /\ srvVacancies[i].id = m.id
                /\ LET row == srvVacancies[i]
                       new == [id |-> row.id, stage |-> row.stage,
                               created_at |-> row.created_at, updated_at |-> srvClock + 1,
                               company |-> Stored(row, m.data, "company"),
                               position |-> Stored(row, m.data, "position"),
                               location |-> Stored(row, m.data, "location"),
                               work_format |-> Stored(row, m.data, "work_format"),
                               link |-> Stored(row, m.data, "link"),
                               salary_min |-> m.data.salary_min,
                               salary_max |-> m.data.salary_max,
                               currency |-> Stored(row, m.data, "currency"),
                               source |-> Stored(row, m.data, "source"),
                               contacts |-> Stored(row, m.data, "contacts"),
                               notes |-> Stored(row, m.data, "notes")]
                   IN  /\ srvVacancies' = [srvVacancies EXCEPT ![i] = new]
                       /\ responses' = Send(responses, NotesResponse(m, TRUE, new))
        /\ srvClock' = srvClock + 1
        /\ requests' = Receive(requests, m)
        /\ UNCHANGED <<vacancies, drops, console, srvEvents, srvPending>>

\* saving the notes fails
SrvFailsNotes ==
    \E m \in BagToSet(requests) :
        /\ m.method = "PUT" /\ "modal" \in DOMAIN m
        /\ requests' = Receive(requests, m)
        /\ responses' = Send(responses, NotesResponse(m, FALSE, <<>>))
        /\ UNCHANGED <<vacancies, drops, console,
                       srvVacancies, srvEvents, srvClock, srvPending>>

(***************************************************************************)
(* App with the vacancy form: Add Vacancy, Edit of the details modal, the  *)
(* submission and what the App does when it settles.                       *)
(***************************************************************************)
\* what the user types into the company field
Companies == {"acme", "initech"}

\* the formData of a form without initialData (of its attributes the model
\* keeps company)
EmptyForm == [company |-> ""]

\* api.createVacancy(data), awaited by the handleSubmit of form number form
apiCreateVacancy(data, form) ==
    [method |-> "POST", path |-> "/vacancies", id |-> 0, data |-> data, form |-> form]

\* api.updateVacancy(id, data), awaited by the handleSubmit of form number form
apiUpdateVacancy(id, data, form) ==
    [method |-> "PUT", path |-> "/vacancies/id", id |-> id, data |-> data, form |-> form]

FormResponse(m, ok, data) ==
    [to |-> m.method, path |-> m.path, ok |-> ok, data |-> data, form |-> m.form]

\* mutant: the button shows the form and leaves editingVacancy as it is
AddVacancyClicked_KeepsEditing ==
    /\ ~showAddModal /\ selectedVacancy = null
    /\ formId < MaxForms
    /\ showAddModal' = TRUE
    /\ formId' = formId + 1
    /\ formData' = IF editingVacancy # null THEN editingVacancy ELSE EmptyForm
    /\ formLoading' = FALSE
    /\ openedFor' = null
    /\ UNCHANGED <<editingVacancy, submits, appVars, userVars>>

\* the Add Vacancy button: setEditingVacancy(null), setShowAddModal(true); the
\* form mounts without initialData
AddVacancyClicked ==
    /\ ~showAddModal /\ selectedVacancy = null
    /\ formId < MaxForms
    /\ editingVacancy' = null
    /\ showAddModal' = TRUE
    /\ formId' = formId + 1
    /\ formData' = EmptyForm
    /\ formLoading' = FALSE
    /\ openedFor' = null
    /\ UNCHANGED <<submits, appVars, userVars>>

\* VacancyDetailsModal onEdit(vacancy): openEditModal; the form mounts with
\* initialData = editingVacancy
openEditModal ==
    /\ selectedVacancy # null /\ ~showAddModal
    /\ formId < MaxForms
    /\ editingVacancy' = selectedVacancy
    /\ selectedVacancy' = null
    /\ showAddModal' = TRUE
    /\ formId' = formId + 1
    /\ formData' = selectedVacancy
    /\ formLoading' = FALSE
    /\ openedFor' = selectedVacancy
    /\ UNCHANGED <<submits, appVars, deletes, selections>>

\* the company input: setFormData({ ...formData, company })
CompanyTyped ==
    /\ showAddModal
    /\ \E c \in Companies \ {formData.company} :
            formData' = [formData EXCEPT !.company = c]
    /\ UNCHANGED <<showAddModal, editingVacancy, formLoading, formId, openedFor, submits,
                   appVars, userVars>>

\* Cancel or X of the form: onClose: setShowAddModal(false)
FormCancelled ==
    /\ showAddModal
    /\ showAddModal' = FALSE
    /\ UNCHANGED <<editingVacancy, formData, formLoading, formId, openedFor, submits,
                   appVars, userVars>>

\* handleCreateVacancy(data), up to await api.createVacancy
handleCreateVacancy(data) == Send(requests, apiCreateVacancy(data, formId))

\* handleUpdateVacancy(data), up to await api.updateVacancy; nothing is sent
\* when no vacancy is being edited
handleUpdateVacancy(data) ==
    IF editingVacancy = null THEN requests
    ELSE Send(requests, apiUpdateVacancy(editingVacancy.id, data, formId))

\* AddVacancyModal.handleSubmit, up to await onSubmit(formData): the submit
\* button is enabled, the required company is filled in;
\* onSubmit = editingVacancy ? handleUpdateVacancy : handleCreateVacancy
handleSubmit ==
    /\ showAddModal /\ ~formLoading
    /\ formData.company # ""
    /\ submits < MaxSubmits
    /\ submits' = submits + 1
    /\ formLoading' = TRUE
    /\ requests' = IF editingVacancy # null THEN handleUpdateVacancy(formData)
                   ELSE handleCreateVacancy(formData)
    /\ UNCHANGED <<showAddModal, editingVacancy, formData, formId, openedFor,
                   vacancies, responses, drops, console,
                   srvVacancies, srvEvents, srvClock, srvPending, userVars>>

\* the form that submitted is the one shown
FormMounted(form) == showAddModal /\ form = formId

\* api.createVacancy resolves: handleCreateVacancy goes on with
\* loadVacancies(); handleSubmit goes on with onClose(), finally
\* setLoading(false)
CreateResolved ==
    /\ \E r \in BagToSet(responses) :
            /\ r.to = "POST" /\ r.ok
            /\ responses' = Receive(responses, r)
    /\ requests' = loadVacancies
    /\ showAddModal' = FALSE
    /\ formLoading' = FALSE
    /\ UNCHANGED <<editingVacancy, formData, formId, openedFor, submits,
                   vacancies, drops, console,
                   srvVacancies, srvEvents, srvClock, srvPending, userVars>>

\* api.updateVacancy resolves: handleUpdateVacancy goes on with
\* loadVacancies(), setEditingVacancy(null), setShowAddModal(false);
\* handleSubmit goes on with onClose(), finally setLoading(false)
UpdateResolved ==
    /\ \E r \in BagToSet(responses) :
            /\ r.to = "PUT" /\ r.ok
            /\ responses' = Receive(responses, r)
    /\ requests' = loadVacancies
    /\ editingVacancy' = null
    /\ showAddModal' = FALSE
    /\ formLoading' = FALSE
    /\ UNCHANGED <<formData, formId, openedFor, submits,
                   vacancies, drops, console,
                   srvVacancies, srvEvents, srvClock, srvPending, userVars>>

\* mutant: the form is closed when the submission fails, too
SubmitRejected_Closes ==
    /\ \E r \in BagToSet(responses) :
            /\ r.to \in {"POST", "PUT"} /\ ~r.ok
            /\ responses' = Receive(responses, r)
            /\ formLoading' = IF FormMounted(r.form) THEN FALSE ELSE formLoading
    /\ showAddModal' = FALSE
    /\ console' = Append(console, "Failed to save vacancy")
    /\ UNCHANGED <<editingVacancy, formData, formId, openedFor, submits,
                   vacancies, requests, drops,
                   srvVacancies, srvEvents, srvClock, srvPending, userVars>>

\* api.createVacancy or api.updateVacancy throws: onSubmit rejects;
\* handleSubmit: catch: console.error(err), finally setLoading(false)
SubmitRejected ==
    /\ \E r \in BagToSet(responses) :
            /\ r.to \in {"POST", "PUT"} /\ ~r.ok
            /\ responses' = Receive(responses, r)
            /\ formLoading' = IF FormMounted(r.form) THEN FALSE ELSE formLoading
    /\ console' = Append(console, "Failed to save vacancy")
    /\ UNCHANGED <<showAddModal, editingVacancy, formData, formId, openedFor, submits,
                   vacancies, requests, drops,
                   srvVacancies, srvEvents, srvClock, srvPending, userVars>>

\* a vacancy as the server stores it, with its company
FormRow(id, t, company) ==
    [id |-> id, stage |-> "new", created_at |-> t, updated_at |-> t, company |-> company]

\* POST /vacancies: the vacancy and its created event (the server is modelled
\* from the specification)
SrvCreateVacancy ==
    \E m \in BagToSet(requests) :
        /\ m.method = "POST"
        /\ LET t == srvClock + 1
               row == FormRow(Len(srvVacancies) + 1, t, m.data.company)
           IN  /\ srvVacancies' = Append(srvVacancies, row)
               /\ srvEvents' = Append(srvEvents,
                        SrvEvent(Len(srvEvents) + 1, row.id, t, "created",
                                 "undefined", "undefined"))
               /\ srvClock' = t
               /\ responses' = Send(responses, FormResponse(m, TRUE, row))
        /\ requests' = Receive(requests, m)
        /\ UNCHANGED <<vacancies, drops, console, srvPending>>

\* PUT /vacancies/{id}: the attributes of the vacancy (the server is modelled
\* from the specification)
SrvUpdateVacancy ==
    \E m \in BagToSet(requests) :
        /\ m.method = "PUT" /\ "form" \in DOMAIN m
        /\ \E i \in DOMAIN srvVacancies :
                /\ srvVacancies[i].id = m.id
                /\ srvVacancies' = [srvVacancies EXCEPT ![i].company = m.data.company,
                                                        ![i].updated_at = srvClock + 1]
                /\ responses' = Send(responses, FormResponse(m, TRUE, srvVacancies'[i]))
        /\ srvClock' = srvClock + 1
        /\ requests' = Receive(requests, m)
        /\ UNCHANGED <<vacancies, drops, console, srvEvents, srvPending>>

\* a submission that fails
SrvFailsForm ==
    \E m \in BagToSet(requests) :
        /\ m.method \in {"POST", "PUT"} /\ "form" \in DOMAIN m
        /\ requests' = Receive(requests, m)
        /\ responses' = Send(responses, FormResponse(m, FALSE, <<>>))
        /\ UNCHANGED <<vacancies, drops, console,
                       srvVacancies, srvEvents, srvClock, srvPending>>

\* App mounted (useEffect: loadVacancies()), the server holding its vacancies
InitApp ==
    /\ vacancies = <<>>
    /\ requests = SetToBag({apiGetVacancies})
    /\ responses = EmptyBag
    /\ drops = 0
    /\ console = <<>>
    /\ srvPending = EmptyBag
    /\ srvVacancies = SrvCreated.rows
    /\ srvEvents = SrvCreated.events
    /\ srvClock = MaxVacancies

vars == <<res, paginatedData, loading, closed,
          vacancies, requests, responses, drops, console,
          srvVacancies, srvEvents, srvClock, srvPending,
          selectedMonth, selectedYear, report, loadingReport,
          now, stats, grouped, selectedVacancy, deletes, selections,
          theme, reportLanguage, localStorage, classList, provider, lastSet,
          modalEvents, modalLoading, notes, isSavingNotes, savedSuccess, timers, modalId, blurs,
          showAddModal, editingVacancy, formData, formLoading, formId, openedFor, submits>>

\* the report view not mounted
InitNoView ==
    /\ res = <<>>
    /\ paginatedData = <<>>
    /\ loading = FALSE
    /\ closed = FALSE

Init == InitApp /\ InitNoView /\ InitNoDashboard /\ InitNoRender

Next ==
    \/ handleDrop /\ UNCHANGED <<reportVars, dashVars, viewVars, userVars, uiVars>>
    \/ UpdateStageResolved /\ UNCHANGED <<reportVars, dashVars, viewVars, userVars, uiVars>>
    \/ UpdateStageRejected /\ UNCHANGED <<reportVars, dashVars, viewVars, userVars, uiVars>>
    \/ GetVacanciesResolved /\ UNCHANGED <<reportVars, dashVars, viewVars, userVars, uiVars>>
    \/ GetVacanciesRejected /\ UNCHANGED <<reportVars, dashVars, viewVars, userVars, uiVars>>
    \/ SrvUpdateStage /\ UNCHANGED <<reportVars, dashVars, viewVars, userVars, uiVars>>
    \/ SrvGetVacancies /\ UNCHANGED <<reportVars, dashVars, viewVars, userVars, uiVars>>
    \/ SrvFails /\ UNCHANGED <<reportVars, dashVars, viewVars, userVars, uiVars>>

Spec == Init /\ [][Next]_vars

\* the App with the server that does not lock between callers
NextRace ==
    \/ handleDrop /\ UNCHANGED <<reportVars, dashVars, viewVars, userVars, uiVars>>
    \/ UpdateStageResolved /\ UNCHANGED <<reportVars, dashVars, viewVars, userVars, uiVars>>
    \/ UpdateStageRejected /\ UNCHANGED <<reportVars, dashVars, viewVars, userVars, uiVars>>
    \/ GetVacanciesResolved /\ UNCHANGED <<reportVars, dashVars, viewVars, userVars, uiVars>>
    \/ GetVacanciesRejected /\ UNCHANGED <<reportVars, dashVars, viewVars, userVars, uiVars>>
    \/ SrvReadStage /\ UNCHANGED <<reportVars, dashVars, viewVars, userVars, uiVars>>
    \/ SrvWriteStage /\ UNCHANGED <<reportVars, dashVars, viewVars, userVars, uiVars>>
    \/ SrvGetVacancies /\ UNCHANGED <<reportVars, dashVars, viewVars, userVars, uiVars>>
    \/ SrvFails /\ UNCHANGED <<reportVars, dashVars, viewVars, userVars, uiVars>>

SpecRace == Init /\ [][NextRace]_vars

NextReport ==
    \/ Load /\ UNCHANGED <<appVars, dashVars, viewVars, userVars, uiVars>>
    \/ LoadFailed /\ UNCHANGED <<appVars, dashVars, viewVars, userVars, uiVars>>

(***************************************************************************)
(* Detailed reports the server can answer with.                            *)
(***************************************************************************)
HistoryItem(status, date, comment) == [date |-> date, status |-> status, comment |-> comment]

DetailedVacancy(i, history) ==
    [company |-> i, position |-> i, current_stage |-> "applied", history |-> history]

Dates == <<"2025-03-01", "2025-03-02", "2025-03-03", "2025-03-04",
           "2025-03-05", "2025-03-06", "2025-03-07">>

\* n stage changes on the days after the first
Changes(n) == [i \in 1..n |-> HistoryItem("status_change", Dates[i + 1], "")]

\* three kinds of history: 4 items of which 3 remain (weight 1.0), 7 items of
\* which 6 remain (weight 1.3), 7 items that all remain (weight 1.6)
KindHistory(k) ==
    CASE k = 1 -> <<HistoryItem("Created", Dates[1], ""), HistoryItem("new", Dates[1], "")>>
                    \o Changes(2)
      [] k = 2 -> <<HistoryItem("Created", Dates[1], ""), HistoryItem("new", Dates[1], "")>>
                    \o Changes(5)
      [] k = 3 -> <<HistoryItem("new", Dates[1], "")>> \o Changes(6)

Kinds == 1..3

ReportOfKinds(ks) == [i \in DOMAIN ks |-> DetailedVacancy(i, KindHistory(ks[i]))]

RichItems ==
    {HistoryItem(s, d, c) : s \in {"Created", "new", "New", "applied"},
                            d \in {Dates[1], Dates[2]}, c \in {"", "note"}}

PlainItems ==
    {HistoryItem("Created", Dates[1], ""), HistoryItem("new", Dates[1], ""),
     HistoryItem("status_change", Dates[2], "")}

Histories ==
    UNION {[1..n -> RichItems] : n \in 0..MaxRich}
    \cup UNION {[1..n -> PlainItems] : n \in 0..MaxHist}

InitView ==
    /\ paginatedData = <<>>
    /\ loading = TRUE
    /\ closed = FALSE
    /\ InitNoDashboard
    /\ InitNoRender

\* reports of up to MaxEntries entries
InitPaginate ==
    /\ InitApp
    /\ \/ \E n \in 0..MaxEntries :
            \E ks \in [1..n -> {1, 2}] : res = ReportOfKinds(ks)
       \/ \E n \in 0..MaxHeavy :
            \E ks \in [1..n -> {2, 3}] : res = ReportOfKinds(ks)
       \/ \E n \in 0..MaxMixed :
            \E ks \in [1..n -> Kinds] : res = ReportOfKinds(ks)
    /\ InitView

\* reports of one entry, with any history
InitHistory ==
    /\ InitApp
    /\ res \in {<<DetailedVacancy(1, h)>> : h \in Histories}
    /\ InitView

SpecPaginate == InitPaginate /\ [][NextReport]_vars

SpecHistory == InitHistory /\ [][NextReport]_vars

(***************************************************************************)
(* Event stores the aggregator can be asked about.                         *)
(***************************************************************************)
EventKind(type, to) == [type |-> type, stage_to |-> to]

\* every kind of event: created, a change to each stage, a change that lost
\* its stage_to, a note
EventKinds ==
    {EventKind("created", "undefined"), EventKind("note", "undefined"),
     EventKind("status_change", "undefined")}
        \cup {EventKind("status_change", VacancyStage[i]) : i \in DOMAIN VacancyStage}

FunnelKinds ==
    {EventKind("created", "undefined"), EventKind("status_change", "applied"),
     EventKind("status_change", "interview")}

BoundaryKinds == {EventKind("created", "undefined"), EventKind("status_change", "applied")}

\* the stage the events give a vacancy
ProjectedStage(events, id) ==
    LET H == SelectSeq(events, LAMBDA e : e.vacancy_id = id /\ e.type = "status_change"
                                          /\ e.stage_to # "undefined")
    IN  IF H = <<>> THEN "new" ELSE H[Len(H)].stage_to

\* the events choices[1], choices[2], ... appended in order
RECURSIVE EventsFrom(_, _, _)
EventsFrom(choices, k, events) ==
    IF k > Len(choices) THEN events
    ELSE LET c == choices[k]
         IN  EventsFrom(choices, k + 1,
                Append(events,
                    SrvEvent(k, c.id, c.t, c.kind.type,
                             IF c.kind.type = "status_change"
                             THEN ProjectedStage(events, c.id) ELSE "undefined",
                             c.kind.stage_to)))

EventsOf(choices) == EventsFrom(choices, 1, <<>>)

Choice(kind, id, t) == [kind |-> kind, id |-> id, t |-> t]

NonDecreasing(choices) ==
    \A k \in 1..(Len(choices) - 1) : choices[k].t <= choices[k + 1].t

\* the rows of the vacancies the events are about
RowsOf(events) ==
    [i \in VacancyIds |->
        LET H == SelectSeq(events, LAMBDA e : e.vacancy_id = i)
        IN  [id |-> i, stage |-> ProjectedStage(events, i),
             created_at |-> IF H = <<>> THEN 0 ELSE H[1].timestamp,
             updated_at |-> IF H = <<>> THEN 0 ELSE H[Len(H)].timestamp]]

\* the months and years DashboardView is asked for: All Time, March, April,
\* November, December, January
SelectableMonths == {-1, 2, 3, 10, 11, 0}

SelectableYears == {EpochYear, EpochYear + 1}

\* events of every kind, in March and in April
CategoryChoices ==
    {Choice(k, 1, t) : k \in EventKinds,
                       t \in {FirstInstant(EpochYear, 3) + 1, FirstInstant(EpochYear, 4) + 1}}

\* events of the funnel for every vacancy; the k-th is put at the k-th instant
\* of March
FunnelChoices == {Choice(k, id, 0) : k \in FunnelKinds, id \in VacancyIds}

AtMarch(choices) ==
    [k \in DOMAIN choices |->
        [choices[k] EXCEPT !.t = FirstInstant(EpochYear, 3) + k - 1]]

\* events at the last instant of November, the first and last of December,
\* the first of January
BoundaryChoices ==
    {Choice(k, 1, t) : k \in BoundaryKinds,
                       t \in {FirstInstant(EpochYear, 12) - 1, FirstInstant(EpochYear, 12),
                              FirstInstant(EpochYear + 1, 1) - 1, FirstInstant(EpochYear + 1, 1)}}

\* DashboardView mounted over a server with the events given, its request for
\* the period selected in flight
InitAggregate ==
    /\ InitNoView
    /\ InitNoRender
    /\ \/ \E n \in 0..MaxClassified : \E cs \in [1..n -> CategoryChoices] :
            /\ NonDecreasing(cs)
            /\ srvEvents = EventsOf(cs)
       \/ \E n \in 0..MaxContributing : \E cs \in [1..n -> FunnelChoices] :
            srvEvents = EventsOf(AtMarch(cs))
       \/ \E n \in 0..MaxBoundary : \E cs \in [1..n -> BoundaryChoices] :
            /\ NonDecreasing(cs)
            /\ srvEvents = EventsOf(cs)
    /\ srvVacancies = RowsOf(srvEvents)
    /\ srvClock = IF srvEvents = <<>> THEN 0 ELSE srvEvents[Len(srvEvents)].timestamp
    /\ srvPending = EmptyBag
    /\ vacancies = srvVacancies
    /\ drops = 0
    /\ console = <<>>
    /\ selectedMonth \in SelectableMonths
    /\ selectedYear \in SelectableYears
    /\ report = null
    /\ loadingReport = TRUE
    /\ requests = SetToBag({apiGetReport(selectedYear, targetMonth)})
    /\ responses = EmptyBag

NextAggregate ==
    \/ SrvGetReport /\ UNCHANGED <<reportVars, dashVars, viewVars, userVars, uiVars>>
    \/ SrvFails /\ UNCHANGED <<reportVars, dashVars, viewVars, userVars, uiVars>>
    \/ ReportResolved /\ UNCHANGED <<reportVars, viewVars, userVars, uiVars>>
    \/ ReportRejected /\ UNCHANGED <<reportVars, viewVars, userVars, uiVars>>

SpecAggregate == InitAggregate /\ [][NextAggregate]_vars

(***************************************************************************)
(* Vacancy lists the views can be given.                                   *)
(***************************************************************************)
CardRow(id, stage, created, updated) ==
    [id |-> id, stage |-> stage, created_at |-> created, updated_at |-> updated]

\* the day the views are rendered
Today == 20

\* created_at and updated_at: 8 and 7 days old and never updated, updated 8,
\* 7 and 2 days ago
CardDates ==
    {<<Today - 8, EmptyString>>, <<Today - 7, EmptyString>>, <<Today - 8, Today - 8>>,
     <<Today - 15, Today - 8>>, <<Today - 15, Today - 7>>, <<Today - 15, Today - 2>>}

\* the seven stages, an unknown stage, a stage named as an inherited property
CardStages == {VacancyStage[i] : i \in DOMAIN VacancyStage} \cup {"archived", "constructor"}

Cards(n) ==
    {[i \in 1..n |-> CardRow(i, f[i][1], f[i][2][1], f[i][2][2])] :
        f \in [1..n -> CardStages \X CardDates]}

\* the list loaded, nothing in flight, no view rendered yet
InitViews ==
    /\ InitNoView
    /\ InitNoDashboard
    /\ \E n \in 0..MaxCards : vacancies \in Cards(n)
    /\ srvVacancies = vacancies
    /\ srvEvents = <<>>
    /\ srvClock = Today
    /\ srvPending = EmptyBag
    /\ requests = EmptyBag
    /\ responses = EmptyBag
    /\ drops = 0
    /\ console = <<>>
    /\ now = Today
    /\ stats = null
    /\ grouped = null
    /\ selectedVacancy = null
    /\ deletes = 0
    /\ selections = 0
    /\ InitNoUi

NextViews ==
    \/ RenderDashboard /\ UNCHANGED <<reportVars, appVars, dashVars, userVars, uiVars>>
    \/ RenderBoard /\ UNCHANGED <<reportVars, appVars, dashVars, userVars, uiVars>>

SpecViews == InitViews /\ [][NextViews]_vars

(***************************************************************************)
(* App mounted with DashboardView shown.                                   *)
(***************************************************************************)
\* the server after the vacancies were created and vacancy 1 was applied to
StoredEvents ==
    EventsOf([i \in 1..(MaxVacancies + 1) |->
                IF i <= MaxVacancies THEN Choice(EventKind("created", "undefined"), i, i)
                ELSE Choice(EventKind("status_change", "applied"), 1, i)])

InitAnalytics ==
    /\ InitNoView
    /\ srvEvents = StoredEvents
    /\ srvVacancies = RowsOf(srvEvents)
    /\ srvClock = MaxVacancies + 1
    /\ srvPending = EmptyBag
    /\ vacancies = <<>>
    /\ drops = 0
    /\ console = <<>>
    /\ selectedMonth = -1
    /\ selectedYear = EpochYear
    /\ report = null
    /\ loadingReport = TRUE
    /\ requests = loadBackendStats(SetToBag({apiGetVacancies}))
    /\ responses = EmptyBag
    /\ now = Today
    /\ stats = Stats(vacancies)
    /\ grouped = null
    /\ selectedVacancy = null
    /\ deletes = 0
    /\ selections = 0
    /\ InitNoUi

NextAnalytics ==
    \/ selectMonth /\ UNCHANGED <<reportVars, uiVars>>
    \/ onNavigate /\ UNCHANGED <<reportVars, uiVars>>
    \/ onClose /\ UNCHANGED <<reportVars, uiVars>>
    \/ handleDeleteVacancy /\ UNCHANGED <<reportVars, uiVars>>
    \/ DeleteResolved /\ UNCHANGED <<reportVars, uiVars>>
    \/ DeleteRejected /\ UNCHANGED <<reportVars, uiVars>>
    \/ VacanciesLoadedOnDashboard /\ UNCHANGED <<reportVars, uiVars>>
    \/ GetVacanciesRejected /\ UNCHANGED <<reportVars, dashVars, viewVars, userVars, uiVars>>
    \/ ReportResolved /\ UNCHANGED <<reportVars, viewVars, userVars, uiVars>>
    \/ ReportRejected /\ UNCHANGED <<reportVars, viewVars, userVars, uiVars>>
    \/ SrvDeleteVacancy /\ UNCHANGED <<reportVars, dashVars, viewVars, userVars, uiVars>>
    \/ SrvGetVacancies /\ UNCHANGED <<reportVars, dashVars, viewVars, userVars, uiVars>>
    \/ SrvGetReport /\ UNCHANGED <<reportVars, dashVars, viewVars, userVars, uiVars>>
    \/ SrvFails /\ UNCHANGED <<reportVars, dashVars, viewVars, userVars, uiVars>>

SpecAnalytics == InitAnalytics /\ [][NextAnalytics]_vars

(***************************************************************************)
(* App showing the board, the vacancies loaded, with the details modal.    *)
(***************************************************************************)
InitModal ==
    /\ InitNoView /\ InitNoDashboard /\ InitNoRender
    /\ srvVacancies = SrvCreated.rows
    /\ srvEvents = SrvCreated.events
    /\ srvClock = MaxVacancies
    /\ srvPending = EmptyBag
    /\ vacancies = srvVacancies
    /\ requests = EmptyBag
    /\ responses = EmptyBag
    /\ drops = 0
    /\ console = <<>>

NextModal ==
    \/ onVacancyClick /\ UNCHANGED <<reportVars, dashVars, viewVars, settingsVars, formVars>>
    \/ onClose /\ UNCHANGED <<reportVars, uiVars>>
    \/ ModalStageChange /\ UNCHANGED <<reportVars, dashVars, viewVars, settingsVars, formVars>>
    \/ TimerFires /\ UNCHANGED <<reportVars, dashVars, viewVars, settingsVars, formVars>>
    \/ EventsResolved /\ UNCHANGED <<reportVars, dashVars, viewVars, settingsVars, formVars>>
    \/ EventsRejected /\ UNCHANGED <<reportVars, dashVars, viewVars, settingsVars, formVars>>
    \/ UpdateStageResolved /\ UNCHANGED <<reportVars, dashVars, viewVars, userVars, uiVars>>
    \/ UpdateStageRejected /\ UNCHANGED <<reportVars, dashVars, viewVars, userVars, uiVars>>
    \/ GetVacanciesResolved /\ UNCHANGED <<reportVars, dashVars, viewVars, userVars, uiVars>>
    \/ handleDeleteVacancy /\ UNCHANGED <<reportVars, uiVars>>
    \/ DeleteResolved /\ UNCHANGED <<reportVars, uiVars>>
    \/ SrvUpdateStage /\ UNCHANGED <<reportVars, dashVars, viewVars, userVars, uiVars>>
    \/ SrvGetVacancies /\ UNCHANGED <<reportVars, dashVars, viewVars, userVars, uiVars>>
    \/ SrvDeleteVacancy /\ UNCHANGED <<reportVars, dashVars, viewVars, userVars, uiVars>>
    \/ SrvGetEvents /\ UNCHANGED <<reportVars, dashVars, viewVars, userVars, uiVars>>
    \/ SrvFailsModal /\ UNCHANGED <<reportVars, dashVars, viewVars, userVars, uiVars>>
    \/ SrvNotFound /\ UNCHANGED <<reportVars, dashVars, viewVars, userVars, uiVars>>

SpecModal == InitModal /\ [][NextModal]_vars

(***************************************************************************)
(* App showing the board, the details modal open on a vacancy, and its     *)
(* notes field.                                                            *)
(***************************************************************************)
\* the notes and contacts a stored vacancy can have
StoredNotes == {JsUndefined, JsNull, "", "call back"}

StoredContacts == {JsUndefined, "hr"}

InitNotes ==
    /\ InitNoView /\ InitNoDashboard
    /\ now = 0 /\ stats = null /\ grouped = null
    /\ deletes = 0 /\ selections = 0
    /\ InitNoSettings /\ InitNoForm
    /\ \E text \in StoredNotes, contacts \in StoredContacts :
            srvVacancies = [i \in VacancyIds |->
                                IF i = 1 THEN FullRow(i, i, contacts, text)
                                ELSE FullRow(i, i, "hr", "call back")]
    /\ srvEvents = SrvCreated.events
    /\ srvClock = MaxVacancies
    /\ srvPending = EmptyBag
    /\ vacancies = srvVacancies
    /\ requests = EmptyBag
    /\ responses = EmptyBag
    /\ drops = 0
    /\ console = <<>>
    /\ selectedVacancy = vacancies[1]
    /\ modalEvents = SelectSeq(srvEvents, LAMBDA e : e.vacancy_id = 1)
    /\ modalLoading = FALSE
    /\ notes = OrElse(NotesOf(vacancies[1]), "")
    /\ isSavingNotes = FALSE
    /\ savedSuccess = FALSE
    /\ timers = EmptyBag
    /\ modalId = 1
    /\ blurs = 0

NextNotes ==
    \/ NotesTyped /\ UNCHANGED <<reportVars, dashVars, viewVars, settingsVars, formVars>>
    \/ handleNotesBlur /\ UNCHANGED <<reportVars, dashVars, viewVars, settingsVars, formVars>>
    \/ NotesSaved /\ UNCHANGED <<reportVars, dashVars, viewVars, settingsVars, formVars>>
    \/ NotesRejected /\ UNCHANGED <<reportVars, dashVars, viewVars, settingsVars, formVars>>
    \/ SavedTimerFires /\ UNCHANGED <<reportVars, dashVars, viewVars, settingsVars, formVars>>
    \/ onClose /\ UNCHANGED <<reportVars, uiVars>>
    \/ EventsResolved /\ UNCHANGED <<reportVars, dashVars, viewVars, settingsVars, formVars>>
    \/ SrvUpdateNotes /\ UNCHANGED <<reportVars, dashVars, viewVars, userVars, uiVars>>
    \/ SrvFailsNotes /\ UNCHANGED <<reportVars, dashVars, viewVars, userVars, uiVars>>
    \/ SrvGetEvents /\ UNCHANGED <<reportVars, dashVars, viewVars, userVars, uiVars>>

SpecNotes == InitNotes /\ [][NextNotes]_vars

(***************************************************************************)
(* App showing the board, the details modal open on a vacancy, and the     *)
(* vacancy form.                                                           *)
(***************************************************************************)
InitForm ==
    /\ InitNoView /\ InitNoDashboard
    /\ now = 0 /\ stats = null /\ grouped = null
    /\ deletes = 0 /\ selections = 0
    /\ InitNoSettings /\ InitNoForm
    /\ srvVacancies = [i \in VacancyIds |-> FormRow(i, i, "acme")]
    /\ srvEvents = SrvCreated.events
    /\ srvClock = MaxVacancies
    /\ srvPending = EmptyBag
    /\ vacancies = srvVacancies
    /\ requests = EmptyBag
    /\ responses = EmptyBag
    /\ drops = 0
    /\ console = <<>>
    /\ \E i \in DOMAIN vacancies :
            /\ selectedVacancy = vacancies[i]
            /\ modalEvents = SelectSeq(srvEvents, LAMBDA e : e.vacancy_id = vacancies[i].id)
    /\ modalLoading = FALSE
    /\ notes = ""
    /\ isSavingNotes = FALSE
    /\ savedSuccess = FALSE
    /\ timers = EmptyBag
    /\ modalId = 1
    /\ blurs = 0

NextForm ==
    \/ AddVacancyClicked /\ UNCHANGED <<reportVars, dashVars, viewVars, settingsVars, modalVars>>
    \/ openEditModal /\ UNCHANGED <<reportVars, dashVars, viewVars, settingsVars, modalVars>>
    \/ CompanyTyped /\ UNCHANGED <<reportVars, dashVars, viewVars, settingsVars, modalVars>>
    \/ FormCancelled /\ UNCHANGED <<reportVars, dashVars, viewVars, settingsVars, modalVars>>
    \/ handleSubmit /\ UNCHANGED <<reportVars, dashVars, viewVars, settingsVars, modalVars>>
    \/ CreateResolved /\ UNCHANGED <<reportVars, dashVars, viewVars, settingsVars, modalVars>>
    \/ UpdateResolved /\ UNCHANGED <<reportVars, dashVars, viewVars, settingsVars, modalVars>>
    \/ SubmitRejected /\ UNCHANGED <<reportVars, dashVars, viewVars, settingsVars, modalVars>>
    \/ onClose /\ UNCHANGED <<reportVars, uiVars>>
    \/ GetVacanciesResolved /\ UNCHANGED <<reportVars, dashVars, viewVars, userVars, uiVars>>
    \/ SrvCreateVacancy /\ UNCHANGED <<reportVars, dashVars, viewVars, userVars, uiVars>>
    \/ SrvUpdateVacancy /\ UNCHANGED <<reportVars, dashVars, viewVars, userVars, uiVars>>
    \/ SrvGetVacancies /\ UNCHANGED <<reportVars, dashVars, viewVars, userVars, uiVars>>
    \/ SrvFailsForm /\ UNCHANGED <<reportVars, dashVars, viewVars, userVars, uiVars>>

SpecForm == InitForm /\ [][NextForm]_vars

(***************************************************************************)
(* The SettingsProvider alone, over any localStorage it can find.          *)
(***************************************************************************)
InitProvider ==
    /\ InitApp /\ InitNoView /\ InitNoDashboard
    /\ now = 0 /\ stats = null /\ grouped = null
    /\ selectedVacancy = null /\ deletes = 0 /\ selections = 0
    /\ InitSettings
    /\ InitNoModal
    /\ InitNoForm

NextSettings ==
    \/ ProviderRenders /\ UNCHANGED <<reportVars, appVars, dashVars, viewVars, userVars, modalVars, formVars>>
    \/ InitialEffect /\ UNCHANGED <<reportVars, appVars, dashVars, viewVars, userVars, modalVars, formVars>>
    \/ ThemeChosen /\ UNCHANGED <<reportVars, appVars, dashVars, viewVars, userVars, modalVars, formVars>>
    \/ setReportLanguage /\ UNCHANGED <<reportVars, appVars, dashVars, viewVars, userVars, modalVars, formVars>>
    \/ PageLeft /\ UNCHANGED <<reportVars, appVars, dashVars, viewVars, userVars, modalVars, formVars>>

SpecSettings == InitProvider /\ [][NextSettings]_vars

(***************************************************************************)
(* Properties of the printable report.                                     *)
(***************************************************************************)
\* load() has set the pages
Loaded == ~loading /\ ~closed

Flatten(pages) ==
    LET F[i \in 0..Len(pages)] == IF i = 0 THEN <<>> ELSE F[i-1] \o pages[i]
    IN  F[Len(pages)]

\* the weight of a page in tenths: the sum of the decimal weights 1.0, 1.3, 1.6
PageTenths(page) ==
    LET F[i \in 0..Len(page)] == IF i = 0 THEN 0 ELSE F[i-1] + page[i].weight.t
    IN  F[Len(page)]

\* capacity in tenths of the page with index p (1 is the first page)
CapacityTenths(p) == IF p = 1 THEN 75 ELSE 105

\* status equals "new" whatever the case of its letters
IsNew(status) == status \in {"new", "New", "nEw", "neW", "NEw", "NeW", "nEW", "NEW"}

\* the positions of the history items that the clean-up keeps
KeptAt(h) ==
    {i \in DOMAIN h :
        ~(h[i].status = "Created"
          /\ \E j \in DOMAIN h : IsNew(h[j].status) /\ h[j].date = h[i].date)}

\* the history the clean-up is to produce
CleanHistory(h) ==
    LET K == KeptAt(h)
        at(k) == CHOOSE i \in K : Cardinality({j \in K : j <= i}) = k
    IN  [k \in 1..Cardinality(K) |->
            IF IsNew(h[at(k)].status)
            THEN [date |-> h[at(k)].date, status |-> "Opened", comment |-> h[at(k)].comment]
            ELSE h[at(k)]]

\* C1: the pages, concatenated in page order, are the cleaned-up entries of the
\* input in input order: none lost, none twice, none moved.
C1_PagesConcatToInput ==
    Loaded =>
        LET out == Flatten(paginatedData) IN
        /\ Len(out) = Len(res)
        /\ \A i \in DOMAIN res :
            /\ out[i].company = res[i].company
            /\ out[i].position = res[i].position
            /\ out[i].current_stage = res[i].current_stage
            /\ out[i].history = CleanHistory(res[i].history)

C1_Witness ==
    Loaded /\ Len(paginatedData) >= 2 /\ Len(res) = MaxEntries

\* C2: a page of two or more entries weighs at most 7.5 when it is the first
\* page and at most 10.5 when it is a later page.
C2_PageWithinCapacity ==
    Loaded =>
        \A p \in DOMAIN paginatedData :
            Len(paginatedData[p]) >= 2 => PageTenths(paginatedData[p]) <= CapacityTenths(p)

C2_Witness ==
    /\ Loaded
    /\ Len(paginatedData) = 2
    /\ Len(paginatedData[1]) >= 2
    /\ Len(paginatedData[2]) >= 2
    /\ PageTenths(paginatedData[2]) = 105

\* C3: greedy: for consecutive pages i and i+1, the weight of page i plus the
\* weight of the first entry of page i+1 is strictly greater than the capacity
\* of page i, so an entry that brings a page to exactly its capacity stays on it.
C3_GreedySplit ==
    Loaded =>
        \A p \in DOMAIN paginatedData :
            p + 1 \in DOMAIN paginatedData =>
                PageTenths(paginatedData[p]) + paginatedData[p + 1][1].weight.t
                    > CapacityTenths(p)

\* C4: no entries give exactly one page, which is empty; some entries give no
\* empty page.
C4_EmptyReportOnePage ==
    Loaded =>
        /\ Len(res) = 0 => paginatedData = << <<>> >>
        /\ Len(res) > 0 => \A p \in DOMAIN paginatedData : Len(paginatedData[p]) > 0

C4_Witness ==
    Loaded /\ res = <<>> /\ Len(paginatedData) = 1

\* C5: the weight of an entry is 1.0, 1.3 or 1.6 as its cleaned-up history has
\* at most 3, 4 to 6, or more than 6 items (as doubles: 1, 1.3, 1.6).
C5_WeightFromCleanHistory ==
    Loaded =>
        LET out == Flatten(paginatedData) IN
        \A i \in DOMAIN out :
            LET n == Cardinality(KeptAt(res[i].history)) IN
            out[i].weight = IF n <= 3 THEN Dbl(10, 0)
                            ELSE IF n <= 6 THEN Dbl(13, 8)
                            ELSE Dbl(16, 16)

C5_Witness ==
    /\ Loaded
    /\ Len(res[1].history) = 4
    /\ Len(paginatedData[1][1].history) = 3
    /\ paginatedData[1][1].weight = Dbl(10, 0)

\* the number of entries of the report that weigh w tenths
CountWeighing(w) == Cardinality({i \in DOMAIN res : processedEntry(res[i]).weight.t = w})

\* C7: 8 entries, 2 of weight 1.6 and 6 of weight 1.0, in any order, give two
\* pages: the first 6 entries, then the last 2.
C7_EightEntriesSplitSixTwo ==
    (Loaded /\ Len(res) = 8 /\ CountWeighing(16) = 2 /\ CountWeighing(10) = 6) =>
        /\ Len(paginatedData) = 2
        /\ paginatedData[1] = SubSeq(processed(res), 1, 6)
        /\ paginatedData[2] = SubSeq(processed(res), 7, 8)

C7_Witness ==
    /\ Loaded /\ Len(res) = 8 /\ CountWeighing(16) = 2 /\ CountWeighing(10) = 6
    /\ paginatedData[1][1].weight.t = 16
    /\ paginatedData[1][2].weight.t = 16

\* C8: clean-up of a history: a "Created" item goes exactly when the history has
\* an item of the same date whose status is "new" in any case; every such "new"
\* item stays and becomes "Opened"; every other item stays as it is; order kept.
C8_CleanUpRule ==
    Loaded => paginatedData[1][1].history = CleanHistory(res[1].history)

C8_Witness ==
    /\ Loaded
    /\ res[1].history = <<HistoryItem("Created", Dates[1], ""),
                          HistoryItem("New", Dates[1], "note"),
                          HistoryItem("Created", Dates[2], "")>>
    /\ paginatedData[1][1].history = <<HistoryItem("Opened", Dates[1], "note"),
                                       HistoryItem("Created", Dates[2], "")>>

\* C9: a history of one "Created" item and one "new" item of the same date, in
\* either order, leaves exactly one item, "Opened", of that date.
C9_CreatedAndNewLeaveOpened ==
    \A D \in {Dates[1], Dates[2]} :
        (/\ Loaded
         /\ Len(res[1].history) = 2
         /\ \E i, j \in 1..2 :
                /\ i # j
                /\ res[1].history[i].status = "Created" /\ res[1].history[i].date = D
                /\ res[1].history[j].status = "new" /\ res[1].history[j].date = D)
        => /\ Len(paginatedData[1][1].history) = 1
           /\ paginatedData[1][1].history[1].status = "Opened"
           /\ paginatedData[1][1].history[1].date = D

C9_Witness ==
    /\ Loaded
    /\ res[1].history = <<HistoryItem("new", Dates[2], ""), HistoryItem("Created", Dates[2], "")>>
    /\ Len(paginatedData[1][1].history) = 1

(***************************************************************************)
(* Properties of the stage mutations.                                      *)
(***************************************************************************)
\* the status_change events of a vacancy, in history order
StatusChanges(id) ==
    SelectSeq(srvEvents, LAMBDA e : e.vacancy_id = id /\ e.type = "status_change")

\* the current stage is stage_to of the latest status_change event, or new
StageIsLatestStageTo ==
    \A id \in VacancyIds :
        LET H == StatusChanges(id) IN
        SrvStageOf(id) = IF H = <<>> THEN "new" ELSE H[Len(H)].stage_to

\* this step applies the mutation (id, stage): the server takes the request
\* and answers it ok
Applies(id, stage) ==
    /\ BagIn(apiUpdateStage(id, stage), requests)
    /\ requests' = Receive(requests, apiUpdateStage(id, stage))
    /\ responses' = Send(responses, Response(apiUpdateStage(id, stage), TRUE, <<>>))

\* a step that applies a mutation appends one status_change event, from the
\* stage before to the stage asked for; any other step appends none
OneEventPerMutation ==
    \A id \in VacancyIds :
        LET H == StatusChanges(id) IN
        \/ \E stage \in DropColumns :
                /\ Applies(id, stage)
                /\ Len(StatusChanges(id)') = Len(H) + 1
                /\ SubSeq(StatusChanges(id)', 1, Len(H)) = H
                /\ StatusChanges(id)'[Len(H) + 1].stage_from = SrvStageOf(id)
                /\ StatusChanges(id)'[Len(H) + 1].stage_to = stage
                /\ SrvStageOf(id)' = stage
        \/ /\ \A stage \in DropColumns : ~Applies(id, stage)
           /\ StatusChanges(id)' = H
           /\ SrvStageOf(id)' = SrvStageOf(id)

\* C10: after any sequence of stage mutations of a vacancy its current stage is
\* stage_to of its latest status_change event (new when it has none), and its
\* history holds one status_change event per mutation, in the order applied,
\* each with stage_from the stage before the mutation.
C10_StageFollowsEvents == []StageIsLatestStageTo /\ [][OneEventPerMutation]_vars

C10_Witness ==
    \E id \in VacancyIds :
        LET H == StatusChanges(id) IN
        /\ Len(H) = 3
        /\ H[1].stage_from = "new" /\ H[1].stage_to = "applied"
        /\ H[2].stage_from = "applied" /\ H[2].stage_to = "applied"
        /\ H[3].stage_from = "applied" /\ H[3].stage_to = "interview"
        /\ SrvStageOf(id) = "interview"

(***************************************************************************)
(* Properties of racing stage mutations.                                   *)
(***************************************************************************)
StatusChangeEvents == SelectSeq(srvEvents, LAMBDA e : e.type = "status_change")

\* the requests of api.updateStage in flight
UpdatesInFlight ==
    LET P == {m \in BagToSet(requests) : m.method = "PATCH"}
        count[S \in SUBSET P] ==
            IF S = {} THEN 0
            ELSE LET m == CHOOSE m \in S : TRUE
                 IN  CopiesIn(m, requests) + count[S \ {m}]
    IN  count[P]

\* the stage mutations that failed: answered not ok, or already reported
UpdatesFailed ==
    LET F == {r \in BagToSet(responses) : r.to = "PATCH" /\ ~r.ok}
        count[S \in SUBSET F] ==
            IF S = {} THEN 0
            ELSE LET r == CHOOSE r \in S : TRUE
                 IN  CopiesIn(r, responses) + count[S \ {r}]
    IN  count[F] + Len(SelectSeq(console, LAMBDA e : e = "Failed to update stage"))

\* every stage mutation made is in flight, being applied, failed, or has its
\* one status_change event in the history
NoMutationLost ==
    Len(StatusChangeEvents) + UpdatesInFlight + BagCardinality(srvPending) + UpdatesFailed
        = drops

\* C11: however two stage mutations of one vacancy interleave, once both have
\* completed the history holds both status_change events and the stage is
\* stage_to of the event appended last.
C11_RaceKeepsBothEvents == StageIsLatestStageTo /\ NoMutationLost

\* both mutations read the stage new before either wrote, and both completed
C11_Witness ==
    \E id \in VacancyIds :
        LET H == StatusChanges(id) IN
        /\ Len(H) = 2
        /\ H[1].stage_from = "new" /\ H[1].stage_to = "applied"
        /\ H[2].stage_from = "new" /\ H[2].stage_to = "interview"
        /\ SrvStageOf(id) = "interview"
        /\ drops = 2 /\ UpdatesInFlight = 0 /\ srvPending = EmptyBag

(***************************************************************************)
(* Properties of a failed stage change.                                    *)
(***************************************************************************)
\* one stage change was made, it failed, no request failed after it, and
\* nothing is in flight
OneChangeFailedAndReloaded ==
    /\ drops = 1
    /\ console = <<"Failed to update stage">>
    /\ requests = EmptyBag /\ responses = EmptyBag /\ srvPending = EmptyBag

\* C18: when api.updateStage fails the list is loaded again; once that load
\* has succeeded, with no other change in flight, the client's list is the
\* server's list: the optimistic stage is undone.
C18_FailedChangeReverted == OneChangeFailedAndReloaded => vacancies = srvVacancies

C18_Witness ==
    /\ OneChangeFailedAndReloaded
    /\ vacancies = srvVacancies
    /\ \A i \in DOMAIN vacancies : vacancies[i].stage = "new"

(***************************************************************************)
(* Properties of the period aggregator.                                    *)
(***************************************************************************)
ReportLoaded == report # null

\* the year and month an instant lies in
MonthOf(t) ==
    [year |-> EpochYear + ((t \div TicksPerMonth) \div 12),
     month |-> ((t \div TicksPerMonth) % 12) + 1]

IsFirstInstant(t) == t % TicksPerMonth = 0

PreviousMonth(p) ==
    IF p.month = 1 THEN [year |-> p.year - 1, month |-> 12]
    ELSE [year |-> p.year, month |-> p.month - 1]

\* the event lies in the period: any event for all time, else the events of
\* the month
Within(e, p) == p.month = -1 \/ MonthOf(e.timestamp) = p

SumOfCategories(m) ==
    m.new_vacancies_count.count + m.applications_sent.count + m.responses.count
        + m.interviews.count + m.offers.count + m.rejected.count + m.closed.count

CategoriesRaised(a, b) ==
    {i \in DOMAIN Categories : b[Categories[i]].count # a[Categories[i]].count}

\* C12: every in-period event adds exactly 1 to activities_count and to at
\* most one of the seven categories, an out-of-period event adds nothing; so
\* activities_count is at least the sum of the seven category counts.
C12_OneActivityAtMostOneCategory ==
    ReportLoaded =>
        LET p == report.period
            M(k) == aggregate(SubSeq(srvEvents, 1, k), p)
        IN  /\ report.metrics = M(Len(srvEvents))
            /\ \A k \in DOMAIN srvEvents :
                    IF Within(srvEvents[k], p)
                    THEN /\ M(k).activities_count = M(k - 1).activities_count + 1
                         /\ Cardinality(CategoriesRaised(M(k - 1), M(k))) <= 1
                         /\ SumOfCategories(M(k)) - SumOfCategories(M(k - 1)) \in {0, 1}
                    ELSE M(k) = M(k - 1)
            /\ report.metrics.activities_count >= SumOfCategories(report.metrics)

\* an in-period event of a category and an in-period event of none
C12_Witness ==
    /\ ReportLoaded
    /\ ~AllTime(report.period)
    /\ report.metrics.activities_count = 2
    /\ SumOfCategories(report.metrics) = 1
    /\ report.metrics.offers.count = 1

\* C13: the period of a month is half-open: an event at the first instant of
\* month M is counted in M's report and not in the report of the month
\* before; so an event at the first instant of M+1 is not counted in M's
\* report, December to January included.  The all-time report counts every
\* event.
C13_HalfOpenPeriod ==
    ReportLoaded =>
        /\ report.metrics.activities_count = Len(report.recent_activity)
        /\ \A k \in DOMAIN srvEvents :
             LET e == srvEvents[k]
                 p == report.period
             IN  /\ p.month = -1 => Contains(report.recent_activity, e)
                 /\ IsFirstInstant(e.timestamp) /\ p = MonthOf(e.timestamp)
                        => Contains(report.recent_activity, e)
                 /\ IsFirstInstant(e.timestamp) /\ p = PreviousMonth(MonthOf(e.timestamp))
                        => ~Contains(report.recent_activity, e)

\* the report of December over an event at the first instant of December and
\* one at the first instant of January
C13_Witness ==
    /\ ReportLoaded
    /\ report.period = [year |-> EpochYear, month |-> 12]
    /\ Len(srvEvents) = 2
    /\ srvEvents[1].timestamp = FirstInstant(EpochYear, 12)
    /\ srvEvents[2].timestamp = FirstInstant(EpochYear + 1, 1)
    /\ report.recent_activity = <<srvEvents[1]>>
    /\ report.metrics.activities_count = 1

\* created(A, 2025-03-02), new -> applied (A, 2025-03-05), applied ->
\* interview (A, 2025-03-10), A being vacancy 1
ScenarioEvents ==
    <<SrvEvent(1, 1, FirstInstant(2025, 3), "created", "undefined", "undefined"),
      SrvEvent(2, 1, FirstInstant(2025, 3) + 1, "status_change", "new", "applied"),
      SrvEvent(3, 1, FirstInstant(2025, 3) + 2, "status_change", "applied", "interview")>>

ScenarioReported ==
    /\ srvEvents = ScenarioEvents
    /\ ReportLoaded
    /\ report.period = [year |-> 2025, month |-> 3]

\* C15: for the three events of the scenario and the period (2025, 3) the
\* report has new vacancies 1 [A], applications sent 1 [A], interviews 1 [A],
\* activities_count 3, and 0 with no ids for responses, offers, rejected and
\* closed.
C15_ScenarioMetrics ==
    ScenarioReported =>
        report.metrics =
            [new_vacancies_count |-> [count |-> 1, ids |-> <<1>>],
             activities_count |-> 3,
             applications_sent |-> [count |-> 1, ids |-> <<1>>],
             responses |-> [count |-> 0, ids |-> <<>>],
             interviews |-> [count |-> 1, ids |-> <<1>>],
             offers |-> [count |-> 0, ids |-> <<>>],
             rejected |-> [count |-> 0, ids |-> <<>>],
             closed |-> [count |-> 0, ids |-> <<>>]]

C15_Witness == ScenarioReported /\ report.metrics.activities_count = 3

\* the in-period events of a category
Contributing(c) ==
    SelectSeq(srvEvents, LAMBDA e : Within(e, report.period) /\ Category(e) = c)

FirstIndexOf(events, id) ==
    CHOOSE k \in DOMAIN events :
        /\ events[k].vacancy_id = id
        /\ \A j \in 1..(k - 1) : events[j].vacancy_id # id

\* C17: for each category, ids holds every vacancy_id that contributed an
\* event, each once, in the order of the first contributing event; count is
\* the number of contributing events, so count >= length of ids, and count
\* is 0 exactly when ids is empty.
C17_IdsFirstSeenOnce ==
    ReportLoaded =>
        \A i \in DOMAIN Categories :
            LET c == Categories[i]
                E == Contributing(c)
                ids == report.metrics[c].ids
                count == report.metrics[c].count
            IN  /\ count = Len(E)
                /\ {ids[k] : k \in DOMAIN ids} = {E[k].vacancy_id : k \in DOMAIN E}
                /\ \A j, k \in DOMAIN ids : j < k =>
                        /\ ids[j] # ids[k]
                        /\ FirstIndexOf(E, ids[j]) < FirstIndexOf(E, ids[k])
                /\ count >= Len(ids)
                /\ count = 0 <=> ids = <<>>

\* three applications, of vacancy 2, of vacancy 1, of vacancy 2 again
C17_Witness ==
    /\ ReportLoaded
    /\ report.metrics.applications_sent = [count |-> 3, ids |-> <<2, 1>>]

(***************************************************************************)
(* Properties of the views.                                                *)
(***************************************************************************)
KnownStages == {VacancyStage[i] : i \in DOMAIN VacancyStage}

\* the vacancy is in progress: counted in Active Pipeline
InProgress(v) == v.stage \notin {"new", "rejected", "closed"}

\* updated_at, or created_at when the vacancy was never updated
LastUpdate(v) == IF v.updated_at = EmptyString THEN v.created_at ELSE v.updated_at

\* C19: Needs Attention flags a vacancy exactly when it is in progress (its
\* stage is not new, rejected or closed) and its last update is more than 7
\* days before now.
C19_NeedsAttention ==
    stats # null =>
        /\ stats.active = Len(SelectSeq(vacancies, InProgress))
        /\ \A i \in DOMAIN vacancies :
                Contains(stats.staleItems, vacancies[i])
                    <=> (InProgress(vacancies[i]) /\ LastUpdate(vacancies[i]) < now - 7)

\* the column the vacancy belongs to
ColumnOf(v) == IF v.stage \in KnownStages THEN v.stage ELSE "new"

\* C20: grouping is a partition: every vacancy is in exactly the column of
\* its stage, or in New when its stage is none of the seven; a column keeps
\* the input order; the seven column counts sum to the number of vacancies.
C20_GroupedPartition ==
    grouped # null =>
        /\ grouped.error = "none"
        /\ DOMAIN grouped.groups = KnownStages
        /\ \A c \in KnownStages :
                grouped.groups[c] = SelectSeq(vacancies, LAMBDA v : ColumnOf(v) = c)

(***************************************************************************)
(* Properties of the report of the dashboard.                              *)
(***************************************************************************)
ReportResponses ==
    {r \in BagToSet(responses) : r.to = "GET" /\ r.path = "/analytics/report" /\ r.ok}

\* the reports around: the one the view holds, the ones on their way to it
ReportsAround ==
    (IF report # null THEN {report} ELSE {}) \cup {r.data : r \in ReportResponses}

ActivityOf(r) == {r.recent_activity[i] : i \in DOMAIN r.recent_activity}

\* two reports of the same period agree (no event is appended here)
Idempotent ==
    \A a, b \in ReportsAround :
        a.period = b.period =>
            /\ a.metrics = b.metrics
            /\ ActivityOf(a) = ActivityOf(b)

\* a step of the server that answers a report request
ReportAnswered ==
    \E m \in BagToSet(requests) :
        /\ m.path = "/analytics/report"
        /\ requests' = Receive(requests, m)

ReadOnly == ReportAnswered => srvEvents' = srvEvents /\ srvVacancies' = srvVacancies

Deleted(id) == \A i \in DOMAIN srvVacancies : srvVacancies[i].id # id

\* the stored events of the category lying in the period
StoredOf(c, p) ==
    {k \in DOMAIN StoredEvents :
        Within(StoredEvents[k], p) /\ Category(StoredEvents[k]) = c}

StoredIn(p) == {k \in DOMAIN StoredEvents : Within(StoredEvents[k], p)}

ThemeApplied ==
    /\ ("dark" \in classList) <=> (theme = "dark")
    /\ "theme" \in DOMAIN localStorage /\ localStorage["theme"] = theme

LanguageStored ==
    /\ reportLanguage = lastSet.reportLanguage
    /\ "reportLanguage" \in DOMAIN localStorage
    /\ localStorage["reportLanguage"] = lastSet.reportLanguage

ThemeSide == <<theme, classList, getItemOr("theme", "none")>>
LanguageSide == <<reportLanguage, getItemOr("reportLanguage", "none")>>

\* from the initial effect on, the root has class dark exactly when the theme
\* is dark, and localStorage holds the theme
ThemeInSync == provider = "mounted" => ThemeApplied

\* once setReportLanguage(l) was called, state and localStorage hold l, in
\* this provider and in one rendered later
LanguageInSync ==
    (provider # "unmounted" /\ lastSet.reportLanguage # "none") => LanguageStored

\* a provider rendered later starts with the theme set last
StartsWithLastTheme ==
    (provider = "rendered" /\ lastSet.theme # "none") => theme = lastSet.theme

\* no call of a mounted provider changes the theme and the language together
OneSideAtATime ==
    (provider' = "mounted") => (ThemeSide' = ThemeSide \/ LanguageSide' = LanguageSide)

\* C21: after any sequence of SettingsProvider operations, from the initial
\* effect on the root has class dark iff the theme is dark and localStorage
\* theme equals the theme; after setReportLanguage(l) state and localStorage
\* equal l; setTheme leaves the language and setReportLanguage leaves the
\* theme unchanged, so a provider mounted later starts with the last values.
C21_SettingsInSync ==
    /\ [](ThemeInSync /\ LanguageInSync /\ StartsWithLastTheme)
    /\ [][OneSideAtATime]_vars

\* a provider rendered after light and de were set by an earlier one, on a
\* document whose markup has the class dark
C21_Witness ==
    /\ provider = "rendered"
    /\ lastSet = [theme |-> "light", reportLanguage |-> "de"]
    /\ theme = "light" /\ reportLanguage = "de"
    /\ "dark" \in classList

(***************************************************************************)
(* Properties of the details modal.                                        *)
(***************************************************************************)
StageChangeCalled == drops' = drops + 1

InList(id) == \E i \in DOMAIN vacancies : vacancies[i].id = id

\* the list after handleStageChange(id, stage) differs from the list before
\* in the stage of the vacancy id only
OnlyStageOf(id, stage) ==
    /\ DOMAIN vacancies' = DOMAIN vacancies
    /\ \A i \in DOMAIN vacancies :
            /\ DOMAIN vacancies'[i] = DOMAIN vacancies[i]
            /\ \A f \in DOMAIN vacancies[i] \ {"stage"} : vacancies'[i][f] = vacancies[i][f]
            /\ vacancies'[i].stage = IF vacancies[i].id = id THEN stage ELSE vacancies[i].stage
    /\ ~InList(id) => vacancies' = vacancies

\* C22: handleStageChange(id, stage) changes, in the vacancy list, only the
\* stage of the vacancy whose id matches; the list keeps its length and
\* order; when no vacancy has the id the list is unchanged while the
\* updateStage request is still sent.
C22_OnlyMatchingStageChanges ==
    [][StageChangeCalled =>
        \E id \in VacancyIds, k \in DOMAIN VacancyStage :
            /\ requests' = Send(requests, apiUpdateStage(id, VacancyStage[k]))
            /\ OnlyStageOf(id, VacancyStage[k])]_vars

\* the stage of a vacancy was changed in the modal after the list was loaded
\* again without it: the request is on its way, the list has the other
\* vacancies as they were
C22_Witness ==
    /\ drops = 1
    /\ selectedVacancy # null /\ ~InList(selectedVacancy.id)
    /\ \E m \in BagToSet(requests) : m.method = "PATCH" /\ m.id = selectedVacancy.id
    /\ Len(vacancies) = MaxVacancies - 1
    /\ \A i \in DOMAIN vacancies : vacancies[i].stage = "new"

\* the change was accepted: its event is stored
ChangeAccepted(id) ==
    \E k \in DOMAIN srvEvents :
        srvEvents[k].vacancy_id = id /\ srvEvents[k].type = "status_change"

ShowsChange(id) ==
    \E k \in DOMAIN modalEvents :
        modalEvents[k].vacancy_id = id /\ modalEvents[k].type = "status_change"

\* the modal is open and everything it set going has run: no timer is left,
\* no request or response is under way
ModalSettled ==
    /\ selectedVacancy # null
    /\ timers = EmptyBag /\ requests = EmptyBag /\ responses = EmptyBag

\* C27: after a stage change made from the modal that the server accepts,
\* the events shown in the modal contain the status_change event of the
\* change: the reload of events that the modal schedules observes it (no
\* request has failed, the modal is the one the change was made in).
C27_ReloadObservesEvent ==
    (ModalSettled /\ console = <<>> /\ drops > 0 /\ modalId = 1
        /\ ChangeAccepted(selectedVacancy.id))
        => ShowsChange(selectedVacancy.id)

(***************************************************************************)
(* C23: a form opened with the Add Vacancy button submits through          *)
(* createVacancy and never through updateVacancy, also after an edit form  *)
(* was opened and cancelled; a form opened through openEditModal submits   *)
(* through updateVacancy for the vacancy that was being edited; no         *)
(* updateVacancy request is sent when no vacancy is being edited.          *)
(***************************************************************************)
FormSubmitted == submits' = submits + 1

\* the requests a step sends
Sent == requests' (-) requests

RoutedAsOpened ==
    FormSubmitted =>
        IF openedFor = null
        THEN Sent = SetToBag({apiCreateVacancy(formData, formId)})
        ELSE Sent = SetToBag({apiUpdateVacancy(openedFor.id, formData, formId)})

UpdatesOnlyTheEdited ==
    \A m \in BagToSet(Sent) :
        m.method = "PUT" => (editingVacancy # null /\ m.id = editingVacancy.id)

InFlightOf(form) ==
    \/ \E m \in BagToSet(requests) : "form" \in DOMAIN m /\ m.form = form
    \/ \E r \in BagToSet(responses) : "form" \in DOMAIN r /\ r.form = form

LoadingWhileSubmitting == showAddModal => (formLoading <=> InFlightOf(formId))

Settles(r) == "form" \in DOMAIN r /\ responses' = Receive(responses, r)

SettledAsItEnded ==
    \A r \in BagToSet(responses) :
        Settles(r) =>
            IF r.ok THEN ~showAddModal'
            ELSE /\ showAddModal' = showAddModal
                 /\ formData' = formData
                 /\ Len(console') = Len(console) + 1

ClosedOnlyAfterSuccess ==
    (showAddModal /\ ~showAddModal') =>
        \/ requests' = requests /\ responses' = responses
        \/ \E r \in BagToSet(responses) : Settles(r) /\ r.ok

C24_SubmitSettles ==
    []LoadingWhileSubmitting /\ [][SettledAsItEnded /\ ClosedOnlyAfterSuccess]_vars

\* a submission has failed and its form is still shown, ready to be submitted
\* again
C24_Witness ==
    /\ showAddModal /\ ~formLoading
    /\ submits > 0 /\ ~InFlightOf(formId)
    /\ console # <<>>
    /\ formData.company = "initech"

(***************************************************************************)
(* Properties of stage changes that overtake one another.                  *)
(***************************************************************************)
\* every request and every reload has completed, and none of them failed
AllCompleted ==
    /\ drops > 0
    /\ requests = EmptyBag /\ responses = EmptyBag /\ srvPending = EmptyBag
    /\ console = <<>>

ClientStageOf(id) ==
    LET i == CHOOSE i \in DOMAIN vacancies : vacancies[i].id = id IN vacancies[i].stage

\* C25: once every updateStage request of handleStageChange has completed,
\* the stage of every vacancy in the client's list is the stage the server
\* stores for it, in whatever order the requests reached the server.
C25_ClientStageIsServerStage ==
    AllCompleted =>
        \A i \in DOMAIN vacancies : vacancies[i].stage = SrvStageOf(vacancies[i].id)

(***************************************************************************)
(* Properties of report requests that overtake one another.                *)
(***************************************************************************)
ReportInFlight ==
    \/ \E m \in BagToSet(requests) : m.path = "/analytics/report"
    \/ \E r \in BagToSet(responses) : r.path = "/analytics/report"

\* the report of the period selected now
ReportOfSelected == getReport(srvEvents, [year |-> selectedYear, month |-> targetMonth])

\* the month was changed, every request has completed and none has failed
SelectionSettled ==
    /\ selections > 0
    /\ requests = EmptyBag /\ responses = EmptyBag
    /\ console = <<>>

\* C26: when the selected period changes while a getReport request is in
\* flight, then once all requests have completed the report held is the
\* report of the period selected now, and loadingReport is false only when no
\* getReport request is in flight.
C26_LatestSelectionWins ==
    /\ SelectionSettled => report = ReportOfSelected
    /\ (selections > 0 /\ ~loadingReport) => ~ReportInFlight

(***************************************************************************)
(* Properties of the notes field of the details modal.                     *)
(***************************************************************************)
NotesBlurred == blurs' = blurs + 1

\* the notes the vacancy has, as text: none is the empty text
StoredText(v) == OrElse(NotesOf(v), "")

\* C28: handleNotesBlur sends an updateVacancy request only when the notes
\* text differs from the notes of the vacancy (nothing is sent on a blur
\* without an edit, also for a vacancy that has no notes), and the request
\* carries every other attribute of the vacancy with its current value.
C28_NotesSentOnlyWhenChanged ==
    [][NotesBlurred =>
          /\ Sent # EmptyBag => notes # StoredText(selectedVacancy)
          /\ \A m \in BagToSet(Sent) :
                /\ m.id = selectedVacancy.id
                /\ \A k \in Attributes : m.data[k] = selectedVacancy[k]]_vars

(***************************************************************************)
(* Properties of the funnel of DashboardView.                              *)
(***************************************************************************)
CountOf(name) == report.metrics[name].count

\* round(100 * part / whole), halves up
Percent(part, whole) == (200 * part + whole) \div (2 * whole)

\* C29: for every report loaded the funnel values for applied, response,
\* interview and offer are the counts of applications_sent, responses,
\* interviews and offers; responseRate and interviewRate are the rounded
\* percentages of applied when applied > 0, and 0 when applied = 0 or no
\* report is loaded.
C29_FunnelFromCounts ==
    LET f == Funnel(report) IN
    IF report = null
    THEN f.responseRate = Num(0) /\ f.interviewRate = Num(0)
    ELSE /\ f.counts.applied = Num(CountOf("applications_sent"))
         /\ f.counts.response = Num(CountOf("responses"))
         /\ f.counts.interview = Num(CountOf("interviews"))
         /\ f.counts.offer = Num(CountOf("offers"))
         /\ IF CountOf("applications_sent") > 0
            THEN /\ f.responseRate =
                        Num(Percent(CountOf("responses"), CountOf("applications_sent")))
                 /\ f.interviewRate =
                        Num(Percent(CountOf("interviews"), CountOf("applications_sent")))
            ELSE f.responseRate = Num(0) /\ f.interviewRate = Num(0)

=========================================================================
